---- MODULE Spec2Model ----
(***************************************************************************)
(* Model of the VMX domain computation module (src/src/domain/vmx-domain.ts)*)
(* : target-range derivation and scenario pricing.                         *)
(*                                                                         *)
(* Numbers are JavaScript numbers.  A number is a record                   *)
(*   [k |-> kind, n |-> numerator, d |-> denominator]                      *)
(* where kind is "fin" (the exact rational n/d in lowest terms, d > 0),    *)
(* "nan", "pinf", "ninf", or "undef" (the value undefined, which every     *)
(* arithmetic operator converts to NaN).  Finite arithmetic is exact:      *)
(* rounding to 53 bits and overflow to Infinity are not modelled.          *)
(***************************************************************************)
EXTENDS Integers, Sequences, FiniteSets, TLC

----------------------------------------------------------------------------
(* JavaScript numbers *)

Abs(i) == IF i < 0 THEN -i ELSE i

RECURSIVE GCD(_, _)
GCD(a, b) == IF b = 0 THEN a ELSE GCD(b, a % b)

Fin(n, d) ==
  LET s == IF d < 0 THEN -1 ELSE 1
      g == GCD(Abs(n), Abs(d))
  IN [k |-> "fin", n |-> (s * n) \div g, d |-> (s * d) \div g]

\* a/b < c/d for b, d > 0, by comparing integer parts and then the reciprocals of
\* the fractional parts (no product is formed, so no intermediate overflow)
RECURSIVE FracLt(_, _, _, _)
FracLt(a, b, c, d) ==
  LET q1 == a \div b
      q2 == c \div d
      r1 == a % b
      r2 == c % d
  IN IF q1 # q2 THEN q1 < q2
     ELSE IF r2 = 0 THEN FALSE
     ELSE IF r1 = 0 THEN TRUE
     ELSE FracLt(d, r2, b, r1)

NaN == [k |-> "nan", n |-> 0, d |-> 1]
PosInf == [k |-> "pinf", n |-> 0, d |-> 1]
NegInf == [k |-> "ninf", n |-> 0, d |-> 1]
Undefined == [k |-> "undef", n |-> 0, d |-> 1]
Zero == Fin(0, 1)
One == Fin(1, 1)

\* Number.isFinite(x)
IsFinite(x) == x.k = "fin"

\* x === NaN after ToNumber (undefined converts to NaN)
IsNaN(x) == x.k \in {"nan", "undef"}

\* sign of a non-NaN number: -1, 0 or 1
Sign(x) ==
  CASE x.k = "pinf" -> 1
    [] x.k = "ninf" -> -1
    [] OTHER -> IF x.n > 0 THEN 1 ELSE IF x.n < 0 THEN -1 ELSE 0

\* x < y
Lt(x, y) ==
  IF IsNaN(x) \/ IsNaN(y) THEN FALSE
  ELSE IF IsFinite(x) /\ IsFinite(y) THEN FracLt(x.n, x.d, y.n, y.d)
  ELSE IF x.k = y.k THEN FALSE
  ELSE x.k = "ninf" \/ y.k = "pinf"

\* x <= y
Le(x, y) ==
  IF IsNaN(x) \/ IsNaN(y) THEN FALSE ELSE Lt(x, y) \/ x = y

\* x > y
Gt(x, y) == Lt(y, x)

\* x + y
Add(x, y) ==
  IF IsNaN(x) \/ IsNaN(y) THEN NaN
  ELSE IF IsFinite(x) /\ IsFinite(y) THEN
    LET g == GCD(x.d, y.d)
    IN Fin(x.n * (y.d \div g) + y.n * (x.d \div g), (x.d \div g) * y.d)
  ELSE IF IsFinite(x) THEN y
  ELSE IF IsFinite(y) THEN x
  ELSE IF x.k = y.k THEN x ELSE NaN

\* -x
Neg(x) ==
  CASE IsNaN(x) -> NaN
    [] x.k = "pinf" -> NegInf
    [] x.k = "ninf" -> PosInf
    [] OTHER -> Fin(-x.n, x.d)

\* x - y
Sub(x, y) == Add(x, Neg(y))

\* x * y
Mul(x, y) ==
  IF IsNaN(x) \/ IsNaN(y) THEN NaN
  ELSE IF IsFinite(x) /\ IsFinite(y) THEN
    LET g1 == GCD(Abs(x.n), y.d)
        g2 == GCD(Abs(y.n), x.d)
    IN Fin((x.n \div g1) * (y.n \div g2), (x.d \div g2) * (y.d \div g1))
  ELSE IF Sign(x) * Sign(y) = 0 THEN NaN
  ELSE IF Sign(x) * Sign(y) > 0 THEN PosInf ELSE NegInf

\* x / y
Div(x, y) ==
  IF IsNaN(x) \/ IsNaN(y) THEN NaN
  ELSE IF IsFinite(x) /\ IsFinite(y) THEN
    IF y.n # 0 THEN
      LET g1 == GCD(Abs(x.n), Abs(y.n))
          g2 == GCD(x.d, y.d)
      IN Fin((x.n \div g1) * (y.d \div g2), (x.d \div g2) * (y.n \div g1))
    ELSE IF x.n = 0 THEN NaN
    ELSE IF x.n > 0 THEN PosInf ELSE NegInf
  ELSE IF IsFinite(x) THEN Zero
  ELSE IF IsFinite(y) THEN
    IF (Sign(x) > 0) = (Sign(y) >= 0) THEN PosInf ELSE NegInf
  ELSE NaN

\* Math.max(x, y)
MathMax(x, y) ==
  IF IsNaN(x) \/ IsNaN(y) THEN NaN ELSE IF Lt(x, y) THEN y ELSE x

\* Math.min(x, y)
MathMin(x, y) ==
  IF IsNaN(x) \/ IsNaN(y) THEN NaN ELSE IF Lt(y, x) THEN y ELSE x

\* a ?? b : b when a is undefined (or null), a otherwise
Coalesce(a, b) == IF a.k = "undef" THEN b ELSE a

----------------------------------------------------------------------------
(* Domain data *)

VMX_CATEGORIES ==
  << [id |-> "FACILITATING", label |-> "Site Prep & Infrastructure", sortOrder |-> 1],
     [id |-> "SUBSTRUCTURE", label |-> "Substructure", sortOrder |-> 2],
     [id |-> "SUPERSTRUCTURE", label |-> "Shell", sortOrder |-> 3],
     [id |-> "INTERNAL_FINISHES", label |-> "Interiors", sortOrder |-> 4],
     [id |-> "FF_E", label |-> "Equipment & Furnishings", sortOrder |-> 5],
     [id |-> "SERVICES", label |-> "Services (MEP)", sortOrder |-> 6],
     [id |-> "EXTERNAL_WORKS", label |-> "Exterior Improvements", sortOrder |-> 7] >>

\* VMX_CATEGORIES.length
CategoryCount == Len(VMX_CATEGORIES)

CatIdx == 1..CategoryCount

CatId(i) == VMX_CATEGORIES[i].id

CategoryIds == {CatId(i) : i \in CatIdx}

HeatBand == {"LOW", "MEDIUM", "HIGH"}

\* arr.find(pred), given the indices of the elements satisfying pred: the index of
\* the first one, 0 when there is none
FindIndex(hits) ==
  IF hits = {} THEN 0 ELSE CHOOSE i \in hits : \A j \in hits : i <= j

\* a Map filled by successive set(key, .), given the indices of the elements with
\* the key: the index of the last one, 0 when there is none
LastIndex(hits) ==
  IF hits = {} THEN 0 ELSE CHOOSE i \in hits : \A j \in hits : i >= j

----------------------------------------------------------------------------
(* Numeric safety utilities *)

\* clamp without the Number.isFinite test
clamp_NoFiniteCheck(n, min, max) == MathMin(max, MathMax(min, n))

clamp(n, min, max) ==
  IF ~IsFinite(n) THEN min ELSE MathMin(max, MathMax(min, n))

safePct(n) == clamp(n, Zero, One)

\* ensureMinMax without the collapse of an inverted pair
ensureMinMax_NoCollapse(minPct, maxPct) ==
  [minPct |-> safePct(minPct), maxPct |-> safePct(maxPct)]

\* ensureMinMax comparing the pair as it was given instead of the clamped pair
ensureMinMax_CompareRaw(minPct, maxPct) ==
  LET Ordered(mn, mx) ==
        IF Lt(maxPct, minPct) THEN [minPct |-> mn, maxPct |-> mn]
        ELSE [minPct |-> mn, maxPct |-> mx]
  IN Ordered(safePct(minPct), safePct(maxPct))

ensureMinMax(minPct, maxPct) ==
  LET Ordered(mn, mx) ==
        IF Lt(mx, mn) THEN [minPct |-> mn, maxPct |-> mn]
        ELSE [minPct |-> mn, maxPct |-> mx]
  IN Ordered(safePct(minPct), safePct(maxPct))

\* the bounds of the interval classified as outside of it
classifyRange_OpenInterval(pct, minPct, maxPct) ==
  IF Le(pct, minPct) THEN "LOW"
  ELSE IF Le(maxPct, pct) THEN "HIGH"
  ELSE "OK"

classifyRange(pct, minPct, maxPct) ==
  IF Lt(pct, minPct) THEN "LOW"
  ELSE IF Gt(pct, maxPct) THEN "HIGH"
  ELSE "OK"

----------------------------------------------------------------------------
(* Benchmark lookups and implied Medium shares *)

\* the last entry of the band found instead of the first one
FindBand_Last(benchmark, categoryId, band) ==
  LastIndex({i \in 1..Len(benchmark.bands) :
               /\ benchmark.bands[i].categoryId = categoryId
               /\ benchmark.bands[i].band = band})

\* benchmark.bands.find((b) => b.categoryId === categoryId && b.band === band)
FindBand(benchmark, categoryId, band) ==
  FindIndex({i \in 1..Len(benchmark.bands) :
               /\ benchmark.bands[i].categoryId = categoryId
               /\ benchmark.bands[i].band = band})

\* index of the band found, 0 when the lookup throws "Missing benchmark band for ..."
requireBand(benchmark, categoryId, band) == FindBand(benchmark, categoryId, band)

\* getMediumPsqftOrFallback without Math.max(0, .)
getMediumPsqftOrFallback_NoFloor(benchmark, categoryId) ==
  LET Psqft(i) == benchmark.bands[i].psqft
      Ok(i) == i # 0 /\ IsFinite(benchmark.bands[i].psqft)
      Pick(med, low, high) ==
        IF Ok(med) THEN Psqft(med)
        ELSE IF Ok(low) /\ Ok(high) THEN Div(Add(Psqft(low), Psqft(high)), Fin(2, 1))
        ELSE IF Ok(low) THEN Psqft(low)
        ELSE IF Ok(high) THEN Psqft(high)
        ELSE Zero
  IN Pick(FindBand(benchmark, categoryId, "MEDIUM"),
          FindBand(benchmark, categoryId, "LOW"),
          FindBand(benchmark, categoryId, "HIGH"))

\* getMediumPsqftOrFallback without the average of LOW and HIGH
getMediumPsqftOrFallback_NoAverage(benchmark, categoryId) ==
  LET Psqft(i) == MathMax(Zero, benchmark.bands[i].psqft)
      Ok(i) == i # 0 /\ IsFinite(benchmark.bands[i].psqft)
      Pick(med, low, high) ==
        IF Ok(med) THEN Psqft(med)
        ELSE IF Ok(low) THEN Psqft(low)
        ELSE IF Ok(high) THEN Psqft(high)
        ELSE Zero
  IN Pick(FindBand(benchmark, categoryId, "MEDIUM"),
          FindBand(benchmark, categoryId, "LOW"),
          FindBand(benchmark, categoryId, "HIGH"))

getMediumPsqftOrFallback(benchmark, categoryId) ==
  LET \* Math.max(0, b.psqft) of the band at index i
      Psqft(i) == MathMax(Zero, benchmark.bands[i].psqft)
      \* the band was found and its psqft is finite
      Ok(i) == i # 0 /\ IsFinite(benchmark.bands[i].psqft)
      Pick(med, low, high) ==
        IF Ok(med) THEN Psqft(med)
        ELSE IF Ok(low) /\ Ok(high) THEN Div(Add(Psqft(low), Psqft(high)), Fin(2, 1))
        ELSE IF Ok(low) THEN Psqft(low)
        ELSE IF Ok(high) THEN Psqft(high)
        ELSE Zero
  IN Pick(FindBand(benchmark, categoryId, "MEDIUM"),
          FindBand(benchmark, categoryId, "LOW"),
          FindBand(benchmark, categoryId, "HIGH"))

\* the loop "sum += v" over the first i categories
RECURSIVE SumPsqft(_, _)
SumPsqft(psqftByCat, i) ==
  IF i = 0 THEN Zero ELSE Add(SumPsqft(psqftByCat, i - 1), psqftByCat[CatId(i)])

\* the equal-weights fallback taken only for a negative sum (sum < 0)
computeImpliedMediumAllocationShares_StrictSign(benchmark) ==
  LET Shares(psqftByCat, sum) ==
        IF ~IsFinite(sum) \/ Lt(sum, Zero)
          THEN [c \in CategoryIds |-> Div(One, Fin(CategoryCount, 1))]
        ELSE [c \in CategoryIds |-> Div(psqftByCat[c], sum)]
      Summed(psqftByCat) == Shares(psqftByCat, SumPsqft(psqftByCat, CategoryCount))
  IN Summed([c \in CategoryIds |-> getMediumPsqftOrFallback(benchmark, c)])

computeImpliedMediumAllocationShares(benchmark) ==
  LET \* the two exits, given psqftByCat and sum
      Shares(psqftByCat, sum) ==
        IF ~IsFinite(sum) \/ Le(sum, Zero)
          THEN [c \in CategoryIds |-> Div(One, Fin(CategoryCount, 1))]
        ELSE [c \in CategoryIds |-> Div(psqftByCat[c], sum)]
      Summed(psqftByCat) == Shares(psqftByCat, SumPsqft(psqftByCat, CategoryCount))
  IN Summed([c \in CategoryIds |-> getMediumPsqftOrFallback(benchmark, c)])

----------------------------------------------------------------------------
(* Range derivation engine *)

\* opts === undefined
NoOpts ==
  [relativeTolerance |-> Undefined, minHalfWidthAbs |-> Undefined,
   maxHalfWidthAbs |-> Undefined]

\* deriveTargetRangesFromMedium without the cap maxHalfWidthAbs on the half-width
deriveTargetRangesFromMedium_Uncapped(benchmark, opts) ==
  LET relativeTolerance == clamp(Coalesce(opts.relativeTolerance, Fin(2, 10)), Zero, Fin(2, 1))
      minHalfWidthAbs == clamp(Coalesce(opts.minHalfWidthAbs, Fin(1, 100)), Zero, Fin(1, 2))
      Range(cat, fixed) ==
        [categoryId |-> cat.id, minPct |-> fixed.minPct, maxPct |-> fixed.maxPct]
      Around(cat, center, half) ==
        Range(cat, ensureMinMax(Sub(center, half), Add(center, half)))
      Centered(cat, center) ==
        Around(cat, center, MathMax(minHalfWidthAbs, Mul(center, relativeTolerance)))
      Ranges(shares) ==
        [i \in CatIdx |-> Centered(VMX_CATEGORIES[i], safePct(shares[CatId(i)]))]
  IN Ranges(computeImpliedMediumAllocationShares(benchmark))

\* deriveTargetRangesFromMedium without the floor minHalfWidthAbs on the half-width
deriveTargetRangesFromMedium_NoFloor(benchmark, opts) ==
  LET relativeTolerance == clamp(Coalesce(opts.relativeTolerance, Fin(2, 10)), Zero, Fin(2, 1))
      maxHalfWidthAbs == clamp(Coalesce(opts.maxHalfWidthAbs, Fin(6, 100)), Zero, Fin(1, 2))
      Range(cat, fixed) ==
        [categoryId |-> cat.id, minPct |-> fixed.minPct, maxPct |-> fixed.maxPct]
      Around(cat, center, half) ==
        Range(cat, ensureMinMax(Sub(center, half), Add(center, half)))
      Centered(cat, center) ==
        Around(cat, center, clamp(Mul(center, relativeTolerance), Zero, maxHalfWidthAbs))
      Ranges(shares) ==
        [i \in CatIdx |-> Centered(VMX_CATEGORIES[i], safePct(shares[CatId(i)]))]
  IN Ranges(computeImpliedMediumAllocationShares(benchmark))

deriveTargetRangesFromMedium(benchmark, opts) ==
  LET relativeTolerance == clamp(Coalesce(opts.relativeTolerance, Fin(2, 10)), Zero, Fin(2, 1))
      minHalfWidthAbs == clamp(Coalesce(opts.minHalfWidthAbs, Fin(1, 100)), Zero, Fin(1, 2))
      maxHalfWidthAbs == clamp(Coalesce(opts.maxHalfWidthAbs, Fin(6, 100)), Zero, Fin(1, 2))
      \* the range returned for cat, given the result of ensureMinMax
      Range(cat, fixed) ==
        [categoryId |-> cat.id, minPct |-> fixed.minPct, maxPct |-> fixed.maxPct]
      \* ... given center and half
      Around(cat, center, half) ==
        Range(cat, ensureMinMax(Sub(center, half), Add(center, half)))
      \* ... given center
      Centered(cat, center) ==
        Around(cat, center,
               clamp(MathMax(minHalfWidthAbs, Mul(center, relativeTolerance)),
                     Zero, maxHalfWidthAbs))
      Ranges(shares) ==
        [i \in CatIdx |-> Centered(VMX_CATEGORIES[i], safePct(shares[CatId(i)]))]
  IN Ranges(computeImpliedMediumAllocationShares(benchmark))

\* ExistingRanges without the Array.isArray test
ExistingRanges_NoArrayCheck(benchmark) == benchmark.targetRanges

\* Array.isArray(benchmark.targetRanges) ? benchmark.targetRanges : []
ExistingRanges(benchmark) ==
  IF benchmark.targetRanges.shape = "array" THEN benchmark.targetRanges
  ELSE [shape |-> "array", items |-> << >>]

\* the loop over the existing ranges without its test for null elements
NullGuard_Absent(r) == FALSE

\* !r : the element is null or undefined
NullGuard(r) == r.isNull

\* if (!r || !r.categoryId) continue;
SkipsEntry(r) == NullGuard(r) \/ r.categoryId = ""

\* the first entry of the category kept instead of the last one
ByCatIndex_FirstEntry(existing, categoryId) ==
  FindIndex({i \in 1..Len(existing) :
               ~SkipsEntry(existing[i]) /\ existing[i].categoryId = categoryId})

\* byCat.get(categoryId): the last entry of the category that the loop did not skip
\* (index 0: no entry)
ByCatIndex(existing, categoryId) ==
  LastIndex({i \in 1..Len(existing) :
               ~SkipsEntry(existing[i]) /\ existing[i].categoryId = categoryId})

\* the loop over the existing ranges raises a TypeError: the value iterated is not
\* iterable, or a field of a null element is read
ensureCompleteTargetRangesThrows(benchmark) ==
  LET Throws(existing) ==
        \/ existing.shape # "array"
        \/ \E i \in 1..Len(existing.items) :
             ~NullGuard(existing.items[i]) /\ existing.items[i].isNull
  IN Throws(ExistingRanges(benchmark))

ensureCompleteTargetRanges(benchmark) ==
  LET Fixed(cat, fixed) ==
        [categoryId |-> cat.id, minPct |-> fixed.minPct, maxPct |-> fixed.maxPct]
      \* the entry pushed for cat, given e = byCat.get(cat.id) and
      \* d = derived.find(...) as indices (0: undefined)
      Final(cat, existing, e, derived, d) ==
        IF e # 0
          THEN Fixed(cat, ensureMinMax(existing[e].minPct, existing[e].maxPct))
        ELSE IF d # 0 THEN derived[d]
        ELSE [categoryId |-> cat.id, minPct |-> Zero, maxPct |-> One]
      Complete(existing, derived) ==
        [i \in CatIdx |->
           Final(VMX_CATEGORIES[i], existing, ByCatIndex(existing, CatId(i)), derived,
                 FindIndex({j \in 1..Len(derived) : derived[j].categoryId = CatId(i)}))]
  IN Complete(ExistingRanges(benchmark).items,
              deriveTargetRangesFromMedium(benchmark, NoOpts))

getTargetRangeForCategory(benchmark, categoryId) ==
  LET Found(complete, found) ==
        IF found # 0 THEN complete[found]
        ELSE [categoryId |-> categoryId, minPct |-> Zero, maxPct |-> One]
      Lookup(complete) ==
        Found(complete,
              FindIndex({i \in 1..Len(complete) : complete[i].categoryId = categoryId}))
  IN Lookup(ensureCompleteTargetRanges(benchmark))

----------------------------------------------------------------------------
(* Scenario computation engine *)

ErrArea == "areaSqft must be a positive number"
ErrSelection == "Missing selection for category"
ErrBand == "Missing benchmark band for"
ErrTotal == "Total cost computed as non-positive"
\* an exception of the runtime propagating out of the call
ErrType == "TypeError"

\* a thrown Error: no result object exists
Thrown(message, categoryId, band) ==
  [ok |-> FALSE, error |-> message, errorCategory |-> categoryId, errorBand |-> band,
   areaSqft |-> Undefined, currency |-> "", totalCost |-> Undefined,
   totalPsqft |-> Undefined, categories |-> << >>]

\* a returned ScenarioResult
Returned(areaSqft, currency, totalCost, totalPsqft, categories) ==
  [ok |-> TRUE, error |-> "", errorCategory |-> "", errorBand |-> "",
   areaSqft |-> areaSqft, currency |-> currency, totalCost |-> totalCost,
   totalPsqft |-> totalPsqft, categories |-> categories]

\* the selections read by position, as if they were listed in category order
SelectionIndex_ByPosition(selections, categoryId) ==
  FindIndex({i \in 1..Len(selections) : i \in CatIdx /\ CatId(i) = categoryId})

\* selectionByCat.get(categoryId): index of the entry the Map holds, 0 when none
SelectionIndex(selections, categoryId) ==
  LastIndex({i \in 1..Len(selections) : selections[i].categoryId = categoryId})

\* the reduce started from 1 instead of 0
RECURSIVE SumCost_FromOne(_, _)
SumCost_FromOne(rows, i) ==
  IF i = 0 THEN One ELSE Add(SumCost_FromOne(rows, i - 1), rows[i].cost)

\* the reduce leaving out the first row
RECURSIVE SumCost_SkipFirst(_, _)
SumCost_SkipFirst(rows, i) ==
  IF i <= 1 THEN Zero ELSE Add(SumCost_SkipFirst(rows, i - 1), rows[i].cost)

\* interim.reduce((sum, r) => sum + r.cost, 0) over the first i rows
RECURSIVE SumCost(_, _)
SumCost(rows, i) ==
  IF i = 0 THEN Zero ELSE Add(SumCost(rows, i - 1), rows[i].cost)

\* the area test without Number.isFinite
InvalidArea_NoFiniteCheck(areaSqft) == Le(areaSqft, Zero)

\* the area test without the sign test
InvalidArea_NoSignCheck(areaSqft) == ~IsFinite(areaSqft)

\* !Number.isFinite(areaSqft) || areaSqft <= 0
InvalidArea(areaSqft) == ~IsFinite(areaSqft) \/ Le(areaSqft, Zero)

\* the band is required only when the selection carries no override
BandMissing_UnlessOverride(benchmark, sel) ==
  sel.overridePsqft.k = "undef" /\ requireBand(benchmark, sel.categoryId, sel.band) = 0

\* requireBand(benchmark, cat.id, sel.band) throws
BandMissing(benchmark, sel) == requireBand(benchmark, sel.categoryId, sel.band) = 0

\* the categories visited in reverse order
FirstThrow_Reversed(bad) == CHOOSE i \in bad : \A j \in bad : i >= j

\* VMX_CATEGORIES.map visits the categories in order: the first callback that
\* throws ends the call
FirstThrow(bad) == CHOOSE i \in bad : \A j \in bad : i <= j

\* sel.overridePsqft || base.psqft : an override of 0 or NaN gives way to the band
PsqftUsed_Truthy(sel, base) ==
  IF sel.overridePsqft.k = "undef" \/ IsNaN(sel.overridePsqft) \/ sel.overridePsqft = Zero
    THEN base.psqft
  ELSE sel.overridePsqft

\* sel.overridePsqft ?? base.psqft
PsqftUsed(sel, base) == Coalesce(sel.overridePsqft, base.psqft)

computeScenarioResult(areaSqft, benchmark, selections) ==
  LET SelOf(cat) == SelectionIndex(selections, cat.id)
      \* categories at which the map callback throws
      bad == {i \in CatIdx :
                \/ SelOf(VMX_CATEGORIES[i]) = 0
                \/ BandMissing(benchmark, selections[SelOf(VMX_CATEGORIES[i])])}
      \* the Error of the first callback that throws
      ThrownAt(firstBad, sel) ==
        IF sel = 0 THEN Thrown(ErrSelection, CatId(firstBad), "")
        ELSE Thrown(ErrBand, CatId(firstBad), selections[sel].band)
      \* the row the map callback returns for cat, given sel, base, psqftUsed and
      \* the index found of its range in safeTargetRanges (0: undefined)
      Row(cat, sel, psqftUsed, safeTargetRanges, found) ==
        [categoryId |-> cat.id, label |-> cat.label, band |-> sel.band,
         psqftUsed |-> psqftUsed, cost |-> Mul(areaSqft, psqftUsed),
         range |-> IF found # 0 THEN safeTargetRanges[found]
                   ELSE getTargetRangeForCategory(benchmark, cat.id)]
      Priced(cat, sel, base, safeTargetRanges) ==
        Row(cat, sel, PsqftUsed(sel, base), safeTargetRanges,
            FindIndex({i \in 1..Len(safeTargetRanges) :
                         safeTargetRanges[i].categoryId = cat.id}))
      Interim(cat, sel, safeTargetRanges) ==
        Priced(cat, sel, benchmark.bands[requireBand(benchmark, cat.id, sel.band)],
               safeTargetRanges)
      \* the category of the result for row r, given pct, fixed and rangeStatus
      Classified(r, pct, fixed, rangeStatus) ==
        [categoryId |-> r.categoryId, label |-> r.label, band |-> r.band,
         psqftUsed |-> r.psqftUsed, cost |-> r.cost, pctOfTotal |-> pct,
         targetMinPct |-> fixed.minPct, targetMaxPct |-> fixed.maxPct,
         rangeStatus |-> rangeStatus, isOutOfRange |-> rangeStatus # "OK"]
      Ranged(r, pct, fixed) ==
        Classified(r, pct, fixed, classifyRange(pct, fixed.minPct, fixed.maxPct))
      Category(r, totalCost) ==
        Ranged(r, Div(r.cost, totalCost), ensureMinMax(r.range.minPct, r.range.maxPct))
      \* the part of the function after the reduce
      Totalled(interim, totalCost) ==
        IF Le(totalCost, Zero) THEN Thrown(ErrTotal, "", "")
        ELSE Returned(areaSqft, benchmark.currency, totalCost, Div(totalCost, areaSqft),
                      [i \in CatIdx |-> Category(interim[i], totalCost)])
      Reduced(interim) == Totalled(interim, SumCost(interim, CategoryCount))
      \* the part of the function after ensureCompleteTargetRanges
      Mapped(safeTargetRanges) ==
        IF bad # {}
          THEN ThrownAt(FirstThrow(bad), SelOf(VMX_CATEGORIES[FirstThrow(bad)]))
        ELSE Reduced([i \in CatIdx |->
                        Interim(VMX_CATEGORIES[i], selections[SelOf(VMX_CATEGORIES[i])],
                                safeTargetRanges)])
  IN IF InvalidArea(areaSqft) THEN Thrown(ErrArea, "", "")
     ELSE IF ensureCompleteTargetRangesThrows(benchmark) THEN Thrown(ErrType, "", "")
     ELSE Mapped(ensureCompleteTargetRanges(benchmark))

----------------------------------------------------------------------------
(* Location heuristics of the application (src/unnamed/part_000) *)

\* globalFactor.toFixed(2) for a positive finite factor: the closest multiple of 1/100,
\* the larger one when two are equally close
ToFixed2(x) == Fin((200 * x.n + x.d) \div (2 * x.d), 100)

\* 1 + (globalFactor - 1) * 0.5
dampedLocationFactor(globalFactor) == Add(One, Mul(Sub(globalFactor, One), Fin(1, 2)))

\* a benchmark as the transforms return it: the suffix appended to its name
\* (undefined: none), and bands carrying the properties lowPsf, mediumPsf and highPsf
\* (undefined: the band does not have the property)
Transformed(benchmark, nameSuffix, bands) ==
  [nameSuffix |-> nameSuffix, currency |-> benchmark.currency, bands |-> bands,
   targetRanges |-> benchmark.targetRanges]

\* a band {categoryId, band, psqft} of the benchmark: reading lowPsf, mediumPsf or
\* highPsf of it gives undefined
BandRead(b) ==
  [categoryId |-> b.categoryId, band |-> b.band, psqft |-> b.psqft,
   lowPsf |-> Undefined, mediumPsf |-> Undefined, highPsf |-> Undefined]

\* the benchmark given back as it is
Untransformed(benchmark) ==
  Transformed(benchmark, Undefined,
              [i \in 1..Len(benchmark.bands) |-> BandRead(benchmark.bands[i])])

\* benchmark.bands.map((b) => ({...b, lowPsf: b.lowPsf * f, mediumPsf: b.mediumPsf * f,
\* highPsf: b.highPsf * f})) with f = categoryFactors[b.categoryId] ?? 1
scaleBenchmarkSetByCategory(benchmark, categoryFactors, nameSuffix) ==
  LET Scaled(b, f) ==
        [categoryId |-> b.categoryId, band |-> b.band, psqft |-> b.psqft,
         lowPsf |-> Mul(b.lowPsf, f), mediumPsf |-> Mul(b.mediumPsf, f),
         highPsf |-> Mul(b.highPsf, f)]
      ScaledBand(b) ==
        Scaled(b, IF b.categoryId \in DOMAIN categoryFactors
                    THEN categoryFactors[b.categoryId] ELSE One)
  IN Transformed(benchmark, nameSuffix,
                 [i \in 1..Len(benchmark.bands) |-> ScaledBand(BandRead(benchmark.bands[i]))])

\* Math.abs(globalFactor - 1) < 1e-9 for a finite factor n/d
NearOne(globalFactor) ==
  Abs(globalFactor.n - globalFactor.d) <= (globalFactor.d - 1) \div 1000000000

applyLocationFactorWithDamping(benchmark, globalFactor) ==
  LET Factors(damped) ==
        [c \in CategoryIds |->
           IF Gt(globalFactor, Fin(110, 100)) /\ c \in {"INTERNAL_FINISHES", "FF_E"}
             THEN damped ELSE globalFactor]
  IN IF ~IsFinite(globalFactor) \/ Le(globalFactor, Zero) THEN Untransformed(benchmark)
     ELSE IF NearOne(globalFactor) THEN Untransformed(benchmark)
     ELSE scaleBenchmarkSetByCategory(benchmark, Factors(dampedLocationFactor(globalFactor)),
                                      ToFixed2(globalFactor))

----------------------------------------------------------------------------
(* Inputs of the engine *)

Band(categoryId, band, psqft) == [categoryId |-> categoryId, band |-> band, psqft |-> psqft]

\* a targetRanges element; isNull: the element is null/undefined;
\* categoryId "": the element carries no (truthy) categoryId
RangeEntry(categoryId, minPct, maxPct) ==
  [isNull |-> FALSE, categoryId |-> categoryId, minPct |-> minPct, maxPct |-> maxPct]

NullEntry == [isNull |-> TRUE, categoryId |-> "", minPct |-> Undefined, maxPct |-> Undefined]

\* benchmark.targetRanges: an array, absent (undefined), or some non-array value
RangesArray(items) == [shape |-> "array", items |-> items]
RangesMissing == [shape |-> "missing", items |-> << >>]
RangesNotArray == [shape |-> "notArray", items |-> << >>]

\* the ranges returned by the derivation, as elements of benchmark.targetRanges
AsEntries(rs) ==
  [i \in 1..Len(rs) |-> RangeEntry(rs[i].categoryId, rs[i].minPct, rs[i].maxPct)]

Selection(categoryId, band, overridePsqft) ==
  [categoryId |-> categoryId, band |-> band, overridePsqft |-> overridePsqft]

demoBands ==
  << Band("FACILITATING", "LOW", Fin(3, 1)),
     Band("FACILITATING", "MEDIUM", Fin(51, 1)),
     Band("FACILITATING", "HIGH", Fin(106, 1)),
     Band("SUBSTRUCTURE", "LOW", Fin(63, 1)),
     Band("SUBSTRUCTURE", "MEDIUM", Fin(256, 1)),
     Band("SUBSTRUCTURE", "HIGH", Fin(390, 1)),
     Band("SUPERSTRUCTURE", "LOW", Fin(280, 1)),
     Band("SUPERSTRUCTURE", "MEDIUM", Fin(520, 1)),
     Band("SUPERSTRUCTURE", "HIGH", Fin(780, 1)),
     Band("INTERNAL_FINISHES", "LOW", Fin(220, 1)),
     Band("INTERNAL_FINISHES", "MEDIUM", Fin(460, 1)),
     Band("INTERNAL_FINISHES", "HIGH", Fin(720, 1)),
     Band("FF_E", "LOW", Fin(120, 1)),
     Band("FF_E", "MEDIUM", Fin(260, 1)),
     Band("FF_E", "HIGH", Fin(420, 1)),
     Band("SERVICES", "LOW", Fin(140, 1)),
     Band("SERVICES", "MEDIUM", Fin(280, 1)),
     Band("SERVICES", "HIGH", Fin(440, 1)),
     Band("EXTERNAL_WORKS", "LOW", Fin(90, 1)),
     Band("EXTERNAL_WORKS", "MEDIUM", Fin(180, 1)),
     Band("EXTERNAL_WORKS", "HIGH", Fin(300, 1)) >>

demoTargetRanges ==
  << RangeEntry("FACILITATING", Fin(5, 100), Fin(10, 100)),
     RangeEntry("SUBSTRUCTURE", Fin(15, 100), Fin(20, 100)),
     RangeEntry("SUPERSTRUCTURE", Fin(25, 100), Fin(30, 100)),
     RangeEntry("INTERNAL_FINISHES", Fin(20, 100), Fin(25, 100)),
     RangeEntry("FF_E", Fin(10, 100), Fin(15, 100)),
     RangeEntry("SERVICES", Fin(10, 100), Fin(15, 100)),
     RangeEntry("EXTERNAL_WORKS", Fin(5, 100), Fin(10, 100)) >>

demoBenchmark ==
  [currency |-> "USD", bands |-> demoBands, targetRanges |-> RangesArray(demoTargetRanges)]

\* a benchmark whose every band unit cost is 0, without target ranges
zeroBenchmark ==
  [currency |-> "USD",
   bands |-> [i \in 1..Len(demoBands) |->
                Band(demoBands[i].categoryId, demoBands[i].band, Zero)],
   targetRanges |-> RangesArray(<< >>)]

\* a benchmark without any band and without target ranges
emptyBenchmark ==
  [currency |-> "USD", bands |-> << >>, targetRanges |-> RangesArray(<< >>)]

\* the application's initial selections: every category at MEDIUM, no override
defaultSelections == [i \in CatIdx |-> Selection(CatId(i), "MEDIUM", Undefined)]

\* the application's initial area
defaultArea == Fin(15000, 1)

----------------------------------------------------------------------------
(* Benchmark library storage (src/src/data/benchmark-library-storage.ts) *)

\* Strings the storage layer builds or inspects (region names and ids, benchmark
\* names and ids) are sequences of characters, each character a one-character
\* string; U+2014 and U+00E9, which a string of this module cannot hold, are
\* written by name: "EM_DASH", "E_ACUTE".
EmDash == "EM_DASH"

LowerCase ==
  << "a", "b", "c", "d", "e", "f", "g", "h", "i", "j", "k", "l", "m",
     "n", "o", "p", "q", "r", "s", "t", "u", "v", "w", "x", "y", "z" >>
DecimalDigits == << "0", "1", "2", "3", "4", "5", "6", "7", "8", "9" >>

\* index of character c in the sequence chars, 0 when it is not there
CharIndex(chars, c) == FindIndex({j \in 1..Len(chars) : chars[j] = c})

\* String.prototype.toLowerCase
toLowerCase(s) ==
  LET UpperCase ==
        << "A", "B", "C", "D", "E", "F", "G", "H", "I", "J", "K", "L", "M",
           "N", "O", "P", "Q", "R", "S", "T", "U", "V", "W", "X", "Y", "Z" >>
      Lower(c, at) == IF at = 0 THEN c ELSE LowerCase[at]
  IN [i \in 1..Len(s) |-> Lower(s[i], CharIndex(UpperCase, s[i]))]

\* String.prototype.trim, for the white space character " ": what lies between the
\* first and the last character that is not white space
trim(s) ==
  LET Between(first, last) == IF first = 0 THEN << >> ELSE SubSeq(s, first, last)
  IN Between(FindIndex({i \in 1..Len(s) : s[i] # " "}),
             LastIndex({i \in 1..Len(s) : s[i] # " "}))

slugify(input) ==
  LET \* the character is matched by [a-z0-9]
      IsSlugChar(c) == CharIndex(LowerCase, c) # 0 \/ CharIndex(DecimalDigits, c) # 0
      \* .replace(/[^a-z0-9]+/g, "-"): of a run of other characters the first becomes
      \* "-" and the following ones nothing
      Replaced(s) ==
        SelectSeq([i \in 1..Len(s) |->
                     IF IsSlugChar(s[i]) THEN s[i]
                     ELSE IF i = 1 \/ IsSlugChar(s[i - 1]) THEN "-"
                     ELSE ""],
                  LAMBDA c : c # "")
      \* .replace(/(^-|-$)/g, "")
      StripEnd(a) ==
        IF a # << >> /\ a[Len(a)] = "-" THEN SubSeq(a, 1, Len(a) - 1) ELSE a
      StripDashes(s) == StripEnd(IF s # << >> /\ Head(s) = "-" THEN Tail(s) ELSE s)
  IN StripDashes(Replaced(trim(toLowerCase(input))))

\* the decimal digits of n >= 0, as in a template literal
RECURSIVE Decimal(_)
Decimal(n) ==
  IF n < 10 THEN << DecimalDigits[n + 1] >>
  ELSE Append(Decimal(n \div 10), DecimalDigits[(n % 10) + 1])

TIERS == << "select", "reserve", "signature", "legacy" >>
TierIds == {TIERS[i] : i \in 1..Len(TIERS)}

\* the characters of a tier id
TierText(t) ==
  CASE t = "select" -> << "s", "e", "l", "e", "c", "t" >>
    [] t = "reserve" -> << "r", "e", "s", "e", "r", "v", "e" >>
    [] t = "signature" -> << "s", "i", "g", "n", "a", "t", "u", "r", "e" >>
    [] OTHER -> << "l", "e", "g", "a", "c", "y" >>

tierLabel(t) ==
  CASE t = "select" -> << "S", "e", "l", "e", "c", "t" >>
    [] t = "reserve" -> << "R", "e", "s", "e", "r", "v", "e" >>
    [] t = "signature" -> << "S", "i", "g", "n", "a", "t", "u", "r", "e" >>
    [] OTHER -> << "L", "e", "g", "a", "c", "y" >>

HEAT_BANDS == << "LOW", "MEDIUM", "HIGH" >>

\* null, as JSON holds it in place of a number that is not finite; of the operations
\* on numbers only Number.isFinite and ?? meet it in this model
Null == [k |-> "null", n |-> 0, d |-> 1]

\* a benchmark of the library
LibraryBenchmark(id, name, currency, bands, targetRanges) ==
  [id |-> id, name |-> name, currency |-> currency, bands |-> bands,
   targetRanges |-> targetRanges]

\* JSON.parse(JSON.stringify(b)): of the number properties, NaN and the infinities
\* become null and an undefined one is left out
cloneBenchmarkSet(b) ==
  LET JsonNumber(x) == IF IsFinite(x) \/ x.k = "undef" THEN x ELSE Null
  IN [b EXCEPT
        !.bands = [i \in 1..Len(b.bands) |-> [b.bands[i] EXCEPT !.psqft = JsonNumber(@)]],
        !.targetRanges =
          [b.targetRanges EXCEPT
             !.items = [i \in 1..Len(b.targetRanges.items) |->
                          [b.targetRanges.items[i] EXCEPT !.minPct = JsonNumber(@),
                                                          !.maxPct = JsonNumber(@)]]]]

\* demoBenchmarkME: the bands, target ranges and currency of demoBenchmark
demoBenchmarkME == demoBenchmark

looksLikeME(id, name) ==
  LET \* s.startsWith(prefix)
      StartsWith(s, prefix) == Len(s) >= Len(prefix) /\ SubSeq(s, 1, Len(prefix)) = prefix
      \* s.includes(part)
      Includes(s, part) ==
        \E i \in 1..(Len(s) - Len(part) + 1) : SubSeq(s, i, i + Len(part) - 1) = part
      Test(lowerId, lowerName) ==
        \/ lowerId = << "m", "e" >>
        \/ StartsWith(lowerId, << "m", "e", "-" >>)
        \/ lowerName = << "m", "e" >>
        \/ Includes(lowerName,
                    << "m", "i", "d", "d", "l", "e", " ", "e", "a", "s", "t" >>)
  IN Test(toLowerCase(id), toLowerCase(name))

demoForRegion(id, name) == IF looksLikeME(id, name) THEN demoBenchmarkME ELSE demoBenchmark

\* the clone of base with id `demo-${regionLabel.toLowerCase()}-${tier}` and name
\* `${regionLabel} <em dash> Demo <em dash> ${tierLabel(tier)}`
makeDemoBenchmark(base, regionLabel, tier) ==
  LET Made(clone) ==
        LibraryBenchmark(
          << "d", "e", "m", "o", "-" >> \o toLowerCase(regionLabel) \o << "-" >>
            \o TierText(tier),
          regionLabel \o << " ", EmDash, " ", "D", "e", "m", "o", " ", EmDash, " " >>
            \o tierLabel(tier),
          clone.currency, clone.bands, clone.targetRanges)
  IN Made(cloneBenchmarkSet(base))

Region(id, name, byTier) == [id |-> id, name |-> name, byTier |-> byTier]

Library(regions) == [version |-> 2, regions |-> regions]

buildDemoLibrary ==
  Library(<< Region(<< "u", "s" >>, << "U", "S" >>,
                    [t \in TierIds |-> makeDemoBenchmark(demoBenchmark, << "U", "S" >>, t)]),
             Region(<< "m", "e" >>, << "M", "E" >>,
                    [t \in TierIds |-> makeDemoBenchmark(demoBenchmarkME, << "M", "E" >>, t)]) >>)

\* Values of unknown type (parsed JSON, or what a caller hands over) carry what the
\* storage layer tests: isObject, isArray, isString; a property that is not a string
\* has isString FALSE.

\* a band entry of unknown type: categoryId and band are "" when they are not
\* non-empty strings; psqftType is typeof psqft ("other": neither number nor string);
\* psqft is its value when it is a number, psqftText its characters when it is a string
RawBand(categoryId, band, psqftType, psqft, psqftText) ==
  [isObject |-> TRUE, categoryId |-> categoryId, band |-> band,
   psqftType |-> psqftType, psqft |-> psqft, psqftText |-> psqftText]

\* an element of bands that is not an object
RawBandNotObject ==
  [isObject |-> FALSE, categoryId |-> "", band |-> "", psqftType |-> "other",
   psqft |-> Undefined, psqftText |-> << >>]

RawBands(isArray, items) == [isArray |-> isArray, items |-> items]

\* a benchmark of unknown type
RawBenchmark(id, name, currency, bands, targetRanges) ==
  [isObject |-> TRUE, id |-> id, name |-> name, currency |-> currency,
   bands |-> bands, targetRanges |-> targetRanges]

RawString(text) == [isString |-> TRUE, text |-> text]
RawNotString == [isString |-> FALSE, text |-> << >>]
\* the currency, a string that is not inspected
RawCurrency(code) == [isString |-> TRUE, text |-> code]
RawNoCurrency == [isString |-> FALSE, text |-> ""]

\* a value that is not an object where a benchmark is expected (undefined included)
RawBenchmarkNotObject ==
  [isObject |-> FALSE, id |-> RawNotString, name |-> RawNotString,
   currency |-> RawNoCurrency, bands |-> RawBands(FALSE, << >>),
   targetRanges |-> RangesMissing]

\* the psqft read from a band entry of unknown type: a number as it is, a string
\* through Number(text), which gives the number written for a text of decimal digits
\* (0 for the empty text) and NaN for a text that holds a letter; texts with signs,
\* points, exponents or white space are not among the inputs
RawPsqft(b) ==
  LET RECURSIVE ParseDigits(_, _)
      ParseDigits(text, i) ==
        IF i = 0 THEN 0
        ELSE 10 * ParseDigits(text, i - 1) + (CharIndex(DecimalDigits, text[i]) - 1)
      NumberOfString(text) ==
        IF \A i \in 1..Len(text) : CharIndex(DecimalDigits, text[i]) # 0
          THEN Fin(ParseDigits(text, Len(text)), 1)
        ELSE NaN
  IN CASE b.psqftType = "number" -> b.psqft
       [] b.psqftType = "string" -> NumberOfString(b.psqftText)
       [] OTHER -> NaN

\* the entry is pushed to cleaned whether its unit cost is finite or not
CleanBand_NoFiniteCheck(b) == b.isObject /\ b.categoryId # "" /\ b.band # ""

\* the entry is pushed to cleaned
CleanBand(b) ==
  b.isObject /\ b.categoryId # "" /\ b.band # "" /\ IsFinite(RawPsqft(b))

\* for (const c of VMX_CATEGORIES) for (const band of HEAT_BANDS)
\*   if (!map.has(key)) map.set(key, {categoryId, band, psqft: 0})
\* The keys are numbered in the order of the two loops. A key set by the loops is no
\* key of a later turn, so the keys absent before the loops are those the loops set,
\* in the order of the loops, after the entries already there.
EnsureBands(entries) ==
  LET KeyCategory(k) == CatId(((k - 1) \div Len(HEAT_BANDS)) + 1)
      KeyBand(k) == HEAT_BANDS[((k - 1) % Len(HEAT_BANDS)) + 1]
      Nth(absent, n) == CHOOSE k \in absent : Cardinality({j \in absent : j <= k}) = n
      Set(absent) ==
        entries \o [n \in 1..Cardinality(absent) |->
                      Band(KeyCategory(Nth(absent, n)), KeyBand(Nth(absent, n)), Zero)]
  IN Set({k \in 1..(CategoryCount * Len(HEAT_BANDS)) :
            ~\E j \in 1..Len(entries) :
                entries[j].categoryId = KeyCategory(k) /\ entries[j].band = KeyBand(k)})

\* next.bands: the values of the Map after map.set(`${categoryId}::${band}`, b) for
\* each entry b of cleaned, and after the absent keys were set
NormalizedBands(rawBands) ==
  LET SameKey(a, b) == a.categoryId = b.categoryId /\ a.band = b.band
      \* cleaned: the entries pushed, in order, their unit costs as numbers
      Cleaned(kept) ==
        [i \in 1..Len(kept) |->
           Band(kept[i].categoryId, kept[i].band, RawPsqft(kept[i]))]
      \* a key of the Map keeps the place of the first entry set for it and holds
      \* the last one
      Marked(cleaned) ==
        [i \in 1..Len(cleaned) |->
           [first |-> ~\E j \in 1..(i - 1) : SameKey(cleaned[j], cleaned[i]),
            last |-> cleaned[LastIndex({j \in 1..Len(cleaned) :
                                          SameKey(cleaned[j], cleaned[i])})]]]
      Values(firsts) == [i \in 1..Len(firsts) |-> firsts[i].last]
      MapValues(cleaned) == Values(SelectSeq(Marked(cleaned), LAMBDA m : m.first))
  IN EnsureBands(MapValues(Cleaned(SelectSeq(rawBands, CleanBand))))

normalizeBenchmarkSet(input, fallback, nameHint) ==
  LET \* base.targetRanges ?? fallback.targetRanges ?? []
      CoalescedRanges ==
        IF input.targetRanges.shape # "missing" THEN input.targetRanges
        ELSE IF fallback.targetRanges.shape # "missing" THEN fallback.targetRanges
        ELSE RangesArray(<< >>)
      \* the value has a property bands that is an array: no value held by
      \* targetRanges does
      HasBandsArray(value) == value.shape \notin {"array", "missing", "notArray"}
      \* try { next.targetRanges = ensureCompleteTargetRanges(next.targetRanges) }
      \* catch {}
      \* The function is handed the value of targetRanges where it expects the
      \* benchmark: it reads the properties targetRanges and bands of that value, and
      \* benchmark.bands.find (in getMediumPsqftOrFallback, reached through
      \* deriveTargetRangesFromMedium) raises a TypeError because bands is undefined.
      \* The catch swallows it and next.targetRanges keeps its value.
      TriedTargetRanges(value) ==
        IF HasBandsArray(value)
          THEN RangesArray(AsEntries(ensureCompleteTargetRanges(value)))
        ELSE value
  IN IF ~input.isObject THEN cloneBenchmarkSet(fallback)
     ELSE LibraryBenchmark(
            IF input.id.isString THEN input.id.text ELSE fallback.id,
            IF input.name.isString THEN input.name.text ELSE nameHint,
            IF input.currency.isString THEN input.currency.text ELSE fallback.currency,
            NormalizedBands(IF input.bands.isArray THEN input.bands.items ELSE << >>),
            TriedTargetRanges(CoalescedRanges))

\* byTier of unknown type: tiers[t] is the value of its property t
RawByTier(isObject, tiers) == [isObject |-> isObject, tiers |-> tiers]

normalizeByTier(inputByTier, id, name, demoBase) ==
  [t \in TierIds |->
     normalizeBenchmarkSet(
       IF inputByTier.isObject THEN inputByTier.tiers[t] ELSE RawBenchmarkNotObject,
       makeDemoBenchmark(demoBase, name, t),
       name \o << " ", EmDash, " " >> \o tierLabel(t))]

\* a region of unknown type
RawRegion(isObject, id, name, byTier) ==
  [isObject |-> isObject, id |-> id, name |-> name, byTier |-> byTier]

\* a stored library of unknown type; present FALSE: nothing is stored
RawLibrary(present, regionsIsArray, regions) ==
  [present |-> present, regionsIsArray |-> regionsIsArray, regions |-> regions]

migrateLibrary(input) ==
  LET \* the regions that are not skipped
      Valid(r) == r.isObject /\ r.id.isString /\ r.name.isString
      Pushed(valid) ==
        [i \in 1..Len(valid) |->
           Region(valid[i].id.text, valid[i].name.text,
                  normalizeByTier(valid[i].byTier, valid[i].id.text, valid[i].name.text,
                                  demoForRegion(valid[i].id.text, valid[i].name.text)))]
      Migrated(regions) == IF regions = << >> THEN buildDemoLibrary ELSE Library(regions)
  IN IF ~input.regionsIsArray THEN buildDemoLibrary
     ELSE Migrated(Pushed(SelectSeq(input.regions, Valid)))

\* the library the application starts with, given what localStorage holds
getInitialLibrary(raw) == IF ~raw.present THEN buildDemoLibrary ELSE migrateLibrary(raw)

\* the ids of the regions
RegionIds(lib) == {lib.regions[i].id : i \in 1..Len(lib.regions)}

\* addRegion without its while loop: the slug is the id, taken or not
FreeId_NoLoop(lib, baseId, id, n) == id

\* the while loop of addRegion: the first of baseId, baseId-2, baseId-3, ... that no
\* region has
RECURSIVE FreeId(_, _, _, _)
FreeId(lib, baseId, id, n) ==
  IF id \in RegionIds(lib)
    THEN FreeId(lib, baseId, baseId \o << "-" >> \o Decimal(n), n + 1)
  ELSE id

addRegion(lib, name) ==
  LET Added(baseId) ==
        [lib EXCEPT !.regions =
           << Region(FreeId(lib, baseId, baseId, 2), name,
                     [t \in TierIds |-> makeDemoBenchmark(demoBenchmark, name, t)]) >> \o @]
      Slugged(slug) ==
        Added(IF slug = << >> THEN << "r", "e", "g", "i", "o", "n" >> ELSE slug)
  IN Slugged(slugify(name))

\* lib.regions.map((r) => (r.id === regionId ? {...r, name} : r))
updateRegionName(lib, regionId, name) ==
  [lib EXCEPT !.regions =
     [i \in 1..Len(lib.regions) |->
        IF lib.regions[i].id = regionId THEN [lib.regions[i] EXCEPT !.name = name]
        ELSE lib.regions[i]]]

\* r.byTier[fromTier] is always there: byTier holds the four tiers
copyTierWithinRegion(lib, regionId, fromTier, toTier) ==
  LET Changed(r) == [r EXCEPT !.byTier[toTier] = cloneBenchmarkSet(r.byTier[fromTier])]
  IN [lib EXCEPT !.regions =
        [i \in 1..Len(lib.regions) |->
           IF lib.regions[i].id = regionId THEN Changed(lib.regions[i])
           ELSE lib.regions[i]]]

updateBenchmarkForRegionTier(lib, regionId, tier, nextBenchmark) ==
  LET Changed(r) ==
        [r EXCEPT !.byTier[tier] =
           normalizeBenchmarkSet(
             nextBenchmark,
             makeDemoBenchmark(demoForRegion(r.id, r.name), r.name, tier),
             r.name \o << " ", EmDash, " " >> \o tierLabel(tier))]
  IN [lib EXCEPT !.regions =
        [i \in 1..Len(lib.regions) |->
           IF lib.regions[i].id = regionId THEN Changed(lib.regions[i])
           ELSE lib.regions[i]]]

resetRegionTierToDemo(lib, regionId, tier) ==
  LET Changed(r) ==
        [r EXCEPT !.byTier[tier] =
           makeDemoBenchmark(demoForRegion(r.id, r.name), r.name, tier)]
  IN [lib EXCEPT !.regions =
        [i \in 1..Len(lib.regions) |->
           IF lib.regions[i].id = regionId THEN Changed(lib.regions[i])
           ELSE lib.regions[i]]]

\* the benchmark of the library as the engine reads it
EngineBenchmark(b) ==
  [currency |-> b.currency, bands |-> b.bands, targetRanges |-> b.targetRanges]

----------------------------------------------------------------------------
(* Bounds of the explored inputs *)

\* number of changes made to the initial inputs before the engine is called
MaxEdits == 2

\* the categories whose bands, ranges and selections are changed
EditCats == {"FACILITATING", "SUBSTRUCTURE"}

\* unit costs a band is set to
BandValues == {Zero, Fin(-50, 1), Fin(200, 1), NaN}

\* overrides a selection is given
OverrideValues == {Zero, Fin(400, 1), Fin(-100, 1), NaN, PosInf}

\* areas the engine is called with
AreaValues == {Fin(15000, 1), Fin(30000, 1), Zero, Fin(-15000, 1), NaN}

\* (minPct, maxPct) pairs of a target range entry: well-formed, max < min and
\* outside [0,1], non-finite
RangePairs ==
  { <<Fin(1, 4), Fin(1, 2)>>, <<Fin(3, 2), Fin(-1, 2)>>, <<NaN, Undefined>> }

\* currencies a benchmark is expressed in
Currencies == {"USD", "GBP"}

\* values handed to ensureMinMax as minPct and maxPct
PctValues ==
  {Fin(-1, 2), Zero, Fin(1, 4), Fin(1, 2), One, Fin(3, 2), NaN, PosInf, NegInf, Undefined}

Opts(relativeTolerance, minHalfWidthAbs, maxHalfWidthAbs) ==
  [relativeTolerance |-> relativeTolerance, minHalfWidthAbs |-> minHalfWidthAbs,
   maxHalfWidthAbs |-> maxHalfWidthAbs]

\* options deriveTargetRangesFromMedium is called with: none, out of their bounds,
\* inside them, non-finite, and with the minimum above the maximum
OptsValues ==
  {NoOpts,
   Opts(Fin(3, 1), Undefined, Undefined),
   Opts(Fin(-1, 1), Fin(1, 10), Undefined),
   Opts(Fin(1, 2), Zero, Fin(3, 4)),
   Opts(NaN, NaN, NaN),
   Opts(Undefined, Fin(1, 5), Fin(1, 10))}

\* inputs of the calibration form (relative tolerance in percent, minimum and maximum
\* half-width in percentage points): the initial ones, all zero, not a number, beyond
\* their bounds, and with the minimum above the maximum
CalibrationInputs ==
  { <<Fin(20, 1), One, Fin(6, 1)>>,
    <<Zero, Zero, Zero>>,
    <<NaN, One, Fin(6, 1)>>,
    <<Fin(300, 1), Fin(80, 1), Fin(10, 1)>>,
    <<Fin(50, 1), Fin(5, 1), Fin(2, 1)>> }

\* global location factors: the presets of the application (1, 1.10, 1.18, 1.50) and
\* custom values below 1, zero, negative and non-finite
LocationFactors ==
  {One, Fin(110, 100), Fin(118, 100), Fin(150, 100), Fin(9, 10), Zero, Fin(-1, 1),
   NaN, PosInf}

\* elements of targetRanges: null, without category id, for an id outside the fixed
\* set, and for a category
RangeEntries ==
  {NullEntry, RangeEntry("", Fin(1, 4), Fin(1, 2)), RangeEntry("UNKNOWN", Fin(1, 4), Fin(1, 2))}
    \cup {RangeEntry(c, p[1], p[2]) : c \in EditCats, p \in RangePairs}

\* number of operations made on a library whose benchmarks are edited
MaxLibraryOps == 2

\* number of regions a library grows to
MaxRegions == 5

\* names regions are added under: one whose slug is the id of a demo region, the same
\* with surrounding white space, one whose slug is an id addRegion generates, two
\* whose slug is empty, and white space alone
RegionNames ==
  { << "U", "S" >>,
    << " ", "U", "S", " " >>,
    << "u", "s", "-", "2" >>,
    << EmDash >>,
    << "E_ACUTE", "!" >>,
    << " " >> }

\* the tiers the operations on the library are applied to
EditTiers == {"select", "reserve"}

\* a benchmark handed to the storage layer with damaged bands: two entries for one
\* key, unit costs given as text (numeric and not), a unit cost that is not finite, an
\* element that is not an object, entries for an unknown category and without
\* category; without name and currency; its target ranges hold a single inverted
\* out-of-bounds entry
damagedBenchmark ==
  RawBenchmark(
    RawString(<< "x" >>), RawNotString, RawNoCurrency,
    RawBands(TRUE,
             << RawBand("FACILITATING", "LOW", "number", Fin(10, 1), << >>),
                RawBand("FACILITATING", "LOW", "number", Fin(20, 1), << >>),
                RawBand("SUBSTRUCTURE", "MEDIUM", "string", Undefined, << "1", "2" >>),
                RawBand("SUBSTRUCTURE", "HIGH", "string", Undefined, << "1", "x" >>),
                RawBand("FACILITATING", "MEDIUM", "number", NaN, << >>),
                RawBandNotObject,
                RawBand("UNKNOWN", "LOW", "number", Fin(5, 1), << >>),
                RawBand("", "HIGH", "number", Fin(5, 1), << >>),
                RawBand("SERVICES", "HIGH", "other", Undefined, << >>) >>),
    RangesArray(<< RangeEntry("FACILITATING", Fin(3, 2), Fin(-1, 2)) >>))

\* a benchmark without bands and without target ranges
bandlessBenchmark ==
  RawBenchmark(RawString(<< "y" >>), RawString(<< "Y" >>), RawCurrency("GBP"),
               RawBands(FALSE, << >>), RangesMissing)

\* the demo benchmark after an edit of one unit cost, its target ranges replaced by
\* one entry whose bounds are not numbers
editedBenchmark ==
  RawBenchmark(RawString(<< "z" >>), RawString(<< "Z" >>), RawCurrency("USD"),
               RawBands(TRUE, [i \in 1..Len(demoBands) |->
                                 RawBand(demoBands[i].categoryId, demoBands[i].band, "number",
                                         IF i = 1 THEN Fin(999, 1) ELSE demoBands[i].psqft,
                                         << >>)]),
               RangesArray(<< RangeEntry("SUBSTRUCTURE", NaN, Undefined) >>))

\* benchmarks handed to updateBenchmarkForRegionTier
IncomingBenchmarks ==
  {damagedBenchmark, bandlessBenchmark, editedBenchmark, RawBenchmarkNotObject}

\* what localStorage holds when the application starts: nothing, a value without
\* regions, and a library of one valid region (its tiers damaged, not an object,
\* without bands, and absent) next to a region without id
StoredLibraries ==
  { RawLibrary(FALSE, FALSE, << >>),
    RawLibrary(TRUE, FALSE, << >>),
    RawLibrary(TRUE, TRUE,
               << RawRegion(TRUE, RawNotString, RawString(<< "N" >>),
                            RawByTier(FALSE, [t \in TierIds |-> RawBenchmarkNotObject])),
                  RawRegion(TRUE, RawString(<< "c", "a" >>), RawString(<< "C", "A" >>),
                            RawByTier(TRUE,
                                      [t \in TierIds |->
                                         CASE t = "select" -> damagedBenchmark
                                           [] t = "reserve" -> RawBenchmarkNotObject
                                           [] t = "signature" -> bandlessBenchmark
                                           [] OTHER -> RawBenchmarkNotObject])) >>) }

----------------------------------------------------------------------------
(* State: the inputs handed to the engine, and what the last call gave back *)

VARIABLES
  areaSqft,    \* params.areaSqft
  benchmark,   \* params.benchmark
  selections,  \* params.selections
  edits,       \* number of changes made to the inputs
  op,          \* the exported function called last ("" before any call)
  result,      \* outcome of computeScenarioResult
  ranges,      \* ranges returned by ensureCompleteTargetRanges / deriveTargetRangesFromMedium
  shares,      \* shares returned by computeImpliedMediumAllocationShares
  opts,        \* options handed to deriveTargetRangesFromMedium
  pctArgs,     \* (minPct, maxPct) handed to ensureMinMax
  fixed,       \* pair returned by ensureMinMax
  calls,       \* number of calls made
  library,     \* the benchmark library held by the application
  libOps,      \* number of operations made on the library
  libCall,     \* the operation made last on the library, with its arguments
  factor,      \* global location factor handed to applyLocationFactorWithDamping
  scaled       \* benchmark returned by applyLocationFactorWithDamping

vars ==
  <<areaSqft, benchmark, selections, edits, op, result, ranges, shares,
    opts, pctArgs, fixed, calls, library, libOps, libCall, factor, scaled>>

inputs == <<areaSqft, benchmark, selections>>

NoResult == Thrown("", "", "")
NoRanges == << >>
\* ranges when the call raised an exception instead of returning
RangesThrown == << [categoryId |-> ErrType, minPct |-> Undefined, maxPct |-> Undefined] >>
NoShares == [c \in CategoryIds |-> Undefined]
NoPair == [minPct |-> Undefined, maxPct |-> Undefined]

\* the variables of the range normalization utility, which the engines' calls leave alone
utility == <<pctArgs, fixed>>

\* the variables of the benchmark library, which the engines' calls leave alone
storage == <<library, libOps, libCall>>
\* no library: the storage layer is not in use
NoLibrary == [version |-> 0, regions |-> << >>]

\* a call of a function of the storage layer
LibCall(fn, regionId, tier, fromTier, name, incoming) ==
  [fn |-> fn, regionId |-> regionId, tier |-> tier, fromTier |-> fromTier,
   name |-> name, incoming |-> incoming]
\* no call yet
NoLibCall == LibCall("", << >>, "", "", << >>, RawBenchmarkNotObject)

\* the variables of the location heuristics, which the engines' calls leave alone
location == <<factor, scaled>>
\* no benchmark returned yet
NoScaled ==
  [nameSuffix |-> Undefined, currency |-> "", bands |-> << >>, targetRanges |-> RangesMissing]

\* the benchmarks the exploration starts from
BaseBenchmarks == {demoBenchmark, zeroBenchmark}

Init ==
  /\ areaSqft = defaultArea
  /\ benchmark \in BaseBenchmarks
  /\ selections = defaultSelections
  /\ edits = 0
  /\ op = ""
  /\ result = NoResult
  /\ ranges = NoRanges
  /\ shares = NoShares
  /\ opts = NoOpts
  /\ pctArgs = NoPair
  /\ fixed = NoPair
  /\ calls = 0
  /\ library = NoLibrary
  /\ libOps = 0
  /\ libCall = NoLibCall
  /\ factor = Undefined
  /\ scaled = NoScaled

Editing == op = "" /\ edits < MaxEdits

Edited ==
  /\ edits' = edits + 1
  /\ UNCHANGED <<op, result, ranges, shares, opts, calls, utility, storage, location>>

\* the benchmark's band (c, b) gets unit cost v (the band is added when absent)
SetBandPsqft(c, b, v) ==
  /\ Editing
  /\ LET at == FindBand(benchmark, c, b)
     IN benchmark' =
          [benchmark EXCEPT !.bands =
             IF at = 0 THEN Append(@, Band(c, b, v))
             ELSE [@ EXCEPT ![at].psqft = v]]
  /\ benchmark' # benchmark
  /\ Edited
  /\ UNCHANGED <<areaSqft, selections>>

\* the benchmark loses its band (c, b)
RemoveBand(c, b) ==
  /\ Editing
  /\ FindBand(benchmark, c, b) # 0
  /\ LET Keep(x) == ~(x.categoryId = c /\ x.band = b)
     IN benchmark' = [benchmark EXCEPT !.bands = SelectSeq(@, Keep)]
  /\ Edited
  /\ UNCHANGED <<areaSqft, selections>>

\* the benchmark is expressed in currency cur
SetCurrency(cur) ==
  /\ Editing
  /\ benchmark.currency # cur
  /\ benchmark' = [benchmark EXCEPT !.currency = cur]
  /\ Edited
  /\ UNCHANGED <<areaSqft, selections>>

\* benchmark.targetRanges gets one more element
AppendTargetRange(e) ==
  /\ Editing
  /\ benchmark.targetRanges.shape = "array"
  /\ benchmark' = [benchmark EXCEPT !.targetRanges.items = Append(@, e)]
  /\ Edited
  /\ UNCHANGED <<areaSqft, selections>>

\* benchmark.targetRanges becomes empty, absent or a non-array
ReplaceTargetRanges(t) ==
  /\ Editing
  /\ benchmark.targetRanges # t
  /\ benchmark' = [benchmark EXCEPT !.targetRanges = t]
  /\ Edited
  /\ UNCHANGED <<areaSqft, selections>>

\* the selection of category c moves to band b
SetSelectionBand(c, b) ==
  /\ Editing
  /\ LET at == SelectionIndex(selections, c)
     IN /\ at # 0
        /\ selections[at].band # b
        /\ selections' = [selections EXCEPT ![at].band = b]
  /\ Edited
  /\ UNCHANGED <<areaSqft, benchmark>>

\* the selection of category c gets the override v
SetOverride(c, v) ==
  /\ Editing
  /\ LET at == SelectionIndex(selections, c)
     IN /\ at # 0
        /\ selections[at].overridePsqft # v
        /\ selections' = [selections EXCEPT ![at].overridePsqft = v]
  /\ Edited
  /\ UNCHANGED <<areaSqft, benchmark>>

\* the selections lose their entry for category c
RemoveSelection(c) ==
  /\ Editing
  /\ SelectionIndex(selections, c) # 0
  /\ LET Keep(x) == x.categoryId # c
     IN selections' = SelectSeq(selections, Keep)
  /\ Edited
  /\ UNCHANGED <<areaSqft, benchmark>>

\* the entry of category c moves to the end of the selections
MoveSelectionLast(c) ==
  /\ Editing
  /\ SelectionIndex(selections, c) # 0
  /\ LET Keep(x) == x.categoryId # c
     IN selections' = Append(SelectSeq(selections, Keep),
                             selections[SelectionIndex(selections, c)])
  /\ selections' # selections
  /\ Edited
  /\ UNCHANGED <<areaSqft, benchmark>>

\* the area becomes a
SetArea(a) ==
  /\ Editing
  /\ areaSqft # a
  /\ areaSqft' = a
  /\ Edited
  /\ UNCHANGED <<benchmark, selections>>

CallComputeScenarioResult ==
  /\ op = ""
  /\ op' = "computeScenarioResult"
  /\ calls' = 1
  /\ result' = computeScenarioResult(areaSqft, benchmark, selections)
  /\ UNCHANGED <<areaSqft, benchmark, selections, edits, ranges, shares, opts, utility, storage, location>>

\* what a call of ensureCompleteTargetRanges gives back
EnsureCompleteOutcome ==
  IF ensureCompleteTargetRangesThrows(benchmark) THEN RangesThrown
  ELSE ensureCompleteTargetRanges(benchmark)

\* ensureCompleteTargetRanges storing the completed ranges in the benchmark it was given
CallEnsureCompleteTargetRanges_WritesBack ==
  /\ op = ""
  /\ op' = "ensureCompleteTargetRanges"
  /\ calls' = 1
  /\ ranges' = EnsureCompleteOutcome
  /\ benchmark' =
       [benchmark EXCEPT !.targetRanges =
          RangesArray([i \in 1..Len(EnsureCompleteOutcome) |->
                         RangeEntry(EnsureCompleteOutcome[i].categoryId,
                                    EnsureCompleteOutcome[i].minPct,
                                    EnsureCompleteOutcome[i].maxPct)])]
  /\ UNCHANGED <<areaSqft, selections, edits, result, shares, opts, utility, storage, location>>

CallEnsureCompleteTargetRanges ==
  /\ op = ""
  /\ op' = "ensureCompleteTargetRanges"
  /\ calls' = 1
  /\ ranges' = EnsureCompleteOutcome
  /\ UNCHANGED <<areaSqft, benchmark, selections, edits, result, shares, opts, utility, storage, location>>

CallDeriveTargetRangesFromMedium(o) ==
  /\ op = ""
  /\ op' = "deriveTargetRangesFromMedium"
  /\ calls' = 1
  /\ opts' = o
  /\ ranges' = deriveTargetRangesFromMedium(benchmark, o)
  /\ UNCHANGED <<areaSqft, benchmark, selections, edits, result, shares, utility, storage, location>>

CallComputeImpliedMediumAllocationShares ==
  /\ op = ""
  /\ op' = "computeImpliedMediumAllocationShares"
  /\ calls' = 1
  /\ shares' = computeImpliedMediumAllocationShares(benchmark)
  /\ UNCHANGED <<areaSqft, benchmark, selections, edits, result, ranges, opts, utility, storage, location>>

\* the function called last is called once more with the same arguments
CallAgain ==
  /\ calls = 1
  /\ calls' = 2
  /\ op \in {"computeScenarioResult", "ensureCompleteTargetRanges",
             "deriveTargetRangesFromMedium", "computeImpliedMediumAllocationShares"}
  /\ result' = IF op = "computeScenarioResult"
                 THEN computeScenarioResult(areaSqft, benchmark, selections)
               ELSE result
  /\ ranges' = IF op = "ensureCompleteTargetRanges" THEN EnsureCompleteOutcome
               ELSE IF op = "deriveTargetRangesFromMedium"
                 THEN deriveTargetRangesFromMedium(benchmark, opts)
               ELSE ranges
  /\ shares' = IF op = "computeImpliedMediumAllocationShares"
                 THEN computeImpliedMediumAllocationShares(benchmark)
               ELSE shares
  /\ UNCHANGED <<areaSqft, benchmark, selections, edits, op, opts, utility, storage, location>>

\* ensureMinMax is called on the pair pctArgs
CallEnsureMinMax ==
  /\ op = ""
  /\ op' = "ensureMinMax"
  /\ calls' = 1
  /\ fixed' = ensureMinMax(pctArgs.minPct, pctArgs.maxPct)
  /\ UNCHANGED <<areaSqft, benchmark, selections, edits, result, ranges, shares,
                 opts, pctArgs, storage, location>>

\* ensureMinMax is called on the pair it returned
CallEnsureMinMaxOnResult ==
  /\ op = "ensureMinMax"
  /\ calls = 1
  /\ calls' = 2
  /\ pctArgs' = fixed
  /\ fixed' = ensureMinMax(fixed.minPct, fixed.maxPct)
  /\ UNCHANGED <<areaSqft, benchmark, selections, edits, op, result, ranges, shares, opts,
                 storage, location>>

\* the same scenario is priced again for another area
RescaleArea(a) ==
  /\ op = "computeScenarioResult"
  /\ result.ok
  /\ areaSqft # a
  /\ areaSqft' = a
  /\ result' = computeScenarioResult(a, benchmark, selections)
  /\ UNCHANGED <<benchmark, selections, edits, op, ranges, shares, opts, calls, utility, storage, location>>

\* benchmark.bands gets one more entry, whether or not it holds one for (c, b)
AppendBand(c, b, v) ==
  /\ Editing
  /\ benchmark' = [benchmark EXCEPT !.bands = Append(@, Band(c, b, v))]
  /\ Edited
  /\ UNCHANGED <<areaSqft, selections>>

\* the selections get one more entry, whether or not they hold one for c
AppendSelection(c, b, v) ==
  /\ Editing
  /\ selections' = Append(selections, Selection(c, b, v))
  /\ Edited
  /\ UNCHANGED <<areaSqft, benchmark>>

\* the options calibrateFromMedium hands to deriveTargetRangesFromMedium: the inputs
\* of the form, in percent and percentage points, converted to decimals and clamped
CalibrationOptions(relativeTolerancePct, minHalfWidthPp, maxHalfWidthPp) ==
  Opts(clamp(Div(relativeTolerancePct, Fin(100, 1)), Zero, Fin(2, 1)),
       clamp(Div(minHalfWidthPp, Fin(100, 1)), Zero, Fin(1, 2)),
       clamp(Div(maxHalfWidthPp, Fin(100, 1)), Zero, Fin(1, 2)))

\* "Calibrate from Medium": the benchmark's target ranges are replaced by the ranges
\* derived from it under the options of the form
calibrateFromMedium(u) ==
  /\ op = ""
  /\ ranges = NoRanges
  /\ opts' = CalibrationOptions(u[1], u[2], u[3])
  /\ ranges' = deriveTargetRangesFromMedium(benchmark, opts')
  /\ benchmark' = [benchmark EXCEPT !.targetRanges = RangesArray(AsEntries(ranges'))]
  /\ UNCHANGED <<areaSqft, selections, edits, op, result, shares, calls, utility, storage, location>>

\* the benchmark is adjusted for the location factor g
CallApplyLocationFactorWithDamping(g) ==
  /\ op = ""
  /\ op' = "applyLocationFactorWithDamping"
  /\ calls' = 1
  /\ factor' = g
  /\ scaled' = applyLocationFactorWithDamping(benchmark, g)
  /\ UNCHANGED <<areaSqft, benchmark, selections, edits, result, ranges, shares, opts,
                 utility, storage>>

\* the library takes further operations
LibraryOpen == op = "" /\ libOps < MaxLibraryOps

\* the library has taken the operation call
LibraryChanged(call) ==
  /\ libOps' = libOps + 1
  /\ libCall' = call
  /\ UNCHANGED <<areaSqft, benchmark, selections, edits, op, result, ranges, shares, opts,
                 calls, utility, location>>

CallAddRegion(name) ==
  /\ op = ""
  /\ Len(library.regions) < MaxRegions
  /\ library' = addRegion(library, name)
  /\ LibraryChanged(LibCall("addRegion", << >>, "", "", name, RawBenchmarkNotObject))

CallUpdateRegionName(regionId, name) ==
  /\ LibraryOpen
  /\ library' = updateRegionName(library, regionId, name)
  /\ LibraryChanged(LibCall("updateRegionName", regionId, "", "", name,
                            RawBenchmarkNotObject))

CallCopyTierWithinRegion(regionId, fromTier, toTier) ==
  /\ LibraryOpen
  /\ library' = copyTierWithinRegion(library, regionId, fromTier, toTier)
  /\ LibraryChanged(LibCall("copyTierWithinRegion", regionId, toTier, fromTier, << >>,
                            RawBenchmarkNotObject))

CallUpdateBenchmarkForRegionTier(regionId, tier, nextBenchmark) ==
  /\ LibraryOpen
  /\ library' = updateBenchmarkForRegionTier(library, regionId, tier, nextBenchmark)
  /\ LibraryChanged(LibCall("updateBenchmarkForRegionTier", regionId, tier, "", << >>,
                            nextBenchmark))

CallResetRegionTierToDemo(regionId, tier) ==
  /\ LibraryOpen
  /\ library' = resetRegionTierToDemo(library, regionId, tier)
  /\ LibraryChanged(LibCall("resetRegionTierToDemo", regionId, tier, "", << >>,
                            RawBenchmarkNotObject))

\* the scenario is priced on the benchmark of region i and tier t of the library,
\* every category at band b
PriceLibraryBenchmark(i, t, b) ==
  /\ op = ""
  /\ op' = "computeScenarioResult"
  /\ calls' = 1
  /\ benchmark' = EngineBenchmark(library.regions[i].byTier[t])
  /\ selections' = [j \in CatIdx |-> Selection(CatId(j), b, Undefined)]
  /\ result' = computeScenarioResult(areaSqft, benchmark', selections')
  /\ UNCHANGED <<areaSqft, edits, ranges, shares, opts, utility, storage, location>>

\* changes to the benchmark
EditBenchmark ==
  \/ \E c \in EditCats, b \in HeatBand, v \in BandValues : SetBandPsqft(c, b, v)
  \/ \E c \in EditCats, b \in HeatBand : RemoveBand(c, b)
  \/ \E e \in RangeEntries : AppendTargetRange(e)
  \/ \E cur \in Currencies : SetCurrency(cur)
  \/ \E t \in {RangesArray(<< >>), RangesMissing, RangesNotArray} : ReplaceTargetRanges(t)

\* changes to the selections and the area
EditScenario ==
  \/ \E c \in EditCats, b \in HeatBand : SetSelectionBand(c, b)
  \/ \E c \in EditCats, v \in OverrideValues : SetOverride(c, v)
  \/ \E c \in EditCats : RemoveSelection(c)
  \/ \E c \in EditCats : MoveSelectionLast(c)
  \/ \E a \in AreaValues : SetArea(a)

\* the scenario computation engine, called on any benchmark, selections and area
Next ==
  \/ EditBenchmark
  \/ EditScenario
  \/ CallComputeScenarioResult
  \/ \E a \in {x \in AreaValues : IsFinite(x) /\ Gt(x, Zero)} : RescaleArea(a)

Spec == Init /\ [][Next]_vars

\* the range derivation engine, called on any benchmark
NextRanges ==
  \/ EditBenchmark
  \/ CallEnsureCompleteTargetRanges
  \/ \E o \in OptsValues : CallDeriveTargetRangesFromMedium(o)
  \/ CallComputeImpliedMediumAllocationShares
  \/ CallComputeScenarioResult
  \/ CallAgain

InitRanges ==
  /\ areaSqft = defaultArea
  /\ benchmark \in BaseBenchmarks \cup {emptyBenchmark}
  /\ selections = defaultSelections
  /\ edits = 0
  /\ op = ""
  /\ result = NoResult
  /\ ranges = NoRanges
  /\ shares = NoShares
  /\ opts = NoOpts
  /\ pctArgs = NoPair
  /\ fixed = NoPair
  /\ calls = 0
  /\ library = NoLibrary
  /\ libOps = 0
  /\ libCall = NoLibCall
  /\ factor = Undefined
  /\ scaled = NoScaled

SpecRanges == InitRanges /\ [][NextRanges]_vars

\* the range normalization utility, called on any pair and then on its own result
InitNormalize ==
  /\ areaSqft = defaultArea
  /\ benchmark = demoBenchmark
  /\ selections = defaultSelections
  /\ edits = 0
  /\ op = ""
  /\ result = NoResult
  /\ ranges = NoRanges
  /\ shares = NoShares
  /\ opts = NoOpts
  /\ pctArgs \in [minPct : PctValues, maxPct : PctValues]
  /\ fixed = NoPair
  /\ calls = 0
  /\ library = NoLibrary
  /\ libOps = 0
  /\ libCall = NoLibCall
  /\ factor = Undefined
  /\ scaled = NoScaled

NextNormalize ==
  \/ CallEnsureMinMax
  \/ CallEnsureMinMaxOnResult

SpecNormalize == InitNormalize /\ [][NextNormalize]_vars

\* the scenario computation engine, called on inputs holding several entries for one
\* category or band and entries for ids outside the fixed categories
NextDuplicates ==
  \/ \E c \in EditCats, b \in HeatBand, v \in BandValues : AppendBand(c, b, v)
  \/ \E c \in EditCats \cup {"UNKNOWN"}, b \in HeatBand, v \in {Undefined, Fin(400, 1)} :
       AppendSelection(c, b, v)
  \/ \E e \in RangeEntries : AppendTargetRange(e)
  \/ CallComputeScenarioResult

SpecDuplicates == Init /\ [][NextDuplicates]_vars

\* the benchmark administration: unit costs are edited, the target ranges are
\* calibrated from Medium, and the scenario is priced
NextCalibrate ==
  \/ \E c \in EditCats, b \in HeatBand, v \in BandValues : SetBandPsqft(c, b, v)
  \/ \E c \in EditCats, b \in HeatBand : RemoveBand(c, b)
  \/ \E u \in CalibrationInputs : calibrateFromMedium(u)
  \/ CallComputeScenarioResult

SpecCalibrate == Init /\ [][NextCalibrate]_vars

\* the location adjustment, applied to any benchmark
NextLocation ==
  \/ \E c \in EditCats, b \in HeatBand, v \in BandValues : SetBandPsqft(c, b, v)
  \/ \E g \in LocationFactors : CallApplyLocationFactorWithDamping(g)

SpecLocation == Init /\ [][NextLocation]_vars

\* the application starts with the library that getInitialLibrary returns
InitLibrary ==
  /\ areaSqft = defaultArea
  /\ benchmark = demoBenchmark
  /\ selections = defaultSelections
  /\ edits = 0
  /\ op = ""
  /\ result = NoResult
  /\ ranges = NoRanges
  /\ shares = NoShares
  /\ opts = NoOpts
  /\ pctArgs = NoPair
  /\ fixed = NoPair
  /\ calls = 0
  /\ library \in {getInitialLibrary(raw) : raw \in StoredLibraries}
  /\ libOps = 0
  /\ libCall = NoLibCall
  /\ factor = Undefined
  /\ scaled = NoScaled

\* the benchmark library: regions are added and renamed, tiers copied, updated and
\* reset, and scenarios priced on its benchmarks
NextLibrary ==
  \/ LibraryOpen /\ \E name \in {<< "U", "S" >>} : CallAddRegion(name)
  \/ \E id \in RegionIds(library) : CallUpdateRegionName(id, << "M", "E" >>)
  \/ \E id \in RegionIds(library), from, to \in EditTiers :
       from # to /\ CallCopyTierWithinRegion(id, from, to)
  \/ \E id \in RegionIds(library), t \in EditTiers, b \in IncomingBenchmarks :
       CallUpdateBenchmarkForRegionTier(id, t, b)
  \/ \E id \in RegionIds(library), t \in EditTiers : CallResetRegionTierToDemo(id, t)
  \/ \E i \in 1..Len(library.regions), t \in TierIds, b \in HeatBand :
       PriceLibraryBenchmark(i, t, b)

SpecLibrary == InitLibrary /\ [][NextLibrary]_vars

\* regions are added to the library under any names
NextRegions == \E name \in RegionNames : CallAddRegion(name)

SpecRegions == InitLibrary /\ [][NextRegions]_vars

----------------------------------------------------------------------------
(* Vocabulary of the properties *)

\* x === y on numbers (NaN equals nothing)
NumEq(x, y) == ~IsNaN(x) /\ ~IsNaN(y) /\ x = y

\* the sum of the numbers nums[1..i]
RECURSIVE SumOf(_, _)
SumOf(nums, i) == IF i = 0 THEN Zero ELSE Add(SumOf(nums, i - 1), nums[i])

\* 0 <= minPct <= maxPct <= 1
ValidRange(r) ==
  /\ IsFinite(r.minPct) /\ IsFinite(r.maxPct)
  /\ Le(Zero, r.minPct) /\ Le(r.minPct, r.maxPct) /\ Le(r.maxPct, One)

\* exactly one range per category, in the fixed category order
OnePerCategory(rs) ==
  /\ Len(rs) = CategoryCount
  /\ \A i \in CatIdx : rs[i].categoryId = CatId(i)

\* the elements of benchmark.targetRanges (none unless it is an array)
RangeItems == benchmark.targetRanges.items

\* the area is finite and positive
AreaIsValid == IsFinite(areaSqft) /\ Gt(areaSqft, Zero)

\* the selections hold an entry for the category
HasSelection(c) == \E i \in 1..Len(selections) : selections[i].categoryId = c

\* the entry used for a category that has one: the last one
SelectionFor(c) ==
  selections[CHOOSE i \in 1..Len(selections) :
               /\ selections[i].categoryId = c
               /\ \A j \in (i + 1)..Len(selections) : selections[j].categoryId # c]

\* the benchmark's bands hold an entry for (c, b)
HasBand(c, b) ==
  \E i \in 1..Len(benchmark.bands) :
    benchmark.bands[i].categoryId = c /\ benchmark.bands[i].band = b

\* the unit cost of the first entry for (c, b)
BandPsqft(c, b) ==
  benchmark.bands[CHOOSE i \in 1..Len(benchmark.bands) :
                    /\ benchmark.bands[i].categoryId = c /\ benchmark.bands[i].band = b
                    /\ \A j \in 1..(i - 1) :
                         ~(benchmark.bands[j].categoryId = c /\ benchmark.bands[j].band = b)].psqft

AllSelected == \A c \in CategoryIds : HasSelection(c)

AllSelectedBandsExist ==
  \A c \in CategoryIds : HasSelection(c) => HasBand(c, SelectionFor(c).band)

\* the unit cost category c is priced at: the override when given
UnitCostFor(c) ==
  IF SelectionFor(c).overridePsqft.k # "undef" THEN SelectionFor(c).overridePsqft
  ELSE BandPsqft(c, SelectionFor(c).band)

\* area times the unit cost, summed over the categories in order
ExpectedTotal == SumOf([i \in CatIdx |-> Mul(areaSqft, UnitCostFor(CatId(i)))], CategoryCount)

Computed == op = "computeScenarioResult"

----------------------------------------------------------------------------
(* Properties of the range derivation engine (checked under SpecRanges) *)

\* C1: whatever benchmark.targetRanges holds (missing, not an array, empty, partial,
\* null elements, elements without category id, duplicates, min/max non-finite,
\* outside [0,1] or inverted), ensureCompleteTargetRanges returns exactly 7 ranges,
\* one per category in the fixed order, each with 0 <= minPct <= maxPct <= 1.
C1_RangeValidity ==
  op = "ensureCompleteTargetRanges" =>
    /\ OnePerCategory(ranges)
    /\ \A i \in CatIdx : ValidRange(ranges[i])

\* ensureCompleteTargetRanges has run on target ranges holding, for one category, an
\* inverted out-of-bounds entry followed by a non-finite duplicate
C1_Witness ==
  /\ op = "ensureCompleteTargetRanges"
  /\ \E i, j \in 1..Len(RangeItems) :
       /\ i < j
       /\ RangeItems[i].categoryId = RangeItems[j].categoryId
       /\ RangeItems[i].categoryId \in CategoryIds
       /\ Lt(RangeItems[i].maxPct, RangeItems[i].minPct)
       /\ ~IsFinite(RangeItems[j].minPct)
  /\ OnePerCategory(ranges)

----------------------------------------------------------------------------
(* Properties of the scenario computation engine (checked under Spec) *)

\* C2: when the area is finite and positive, every category has a selection, every
\* selected band exists in the benchmark and the total cost is positive,
\* computeScenarioResult returns a result whatever benchmark.targetRanges holds.
C2_NeverFailsOnRanges ==
  (/\ Computed
   /\ AreaIsValid
   /\ AllSelected
   /\ AllSelectedBandsExist
   /\ Gt(ExpectedTotal, Zero))
  => result.ok

\* a scenario was priced although benchmark.targetRanges is not an array at all
C2_Witness ==
  /\ Computed
  /\ benchmark.targetRanges.shape # "array"
  /\ AllSelected /\ AllSelectedBandsExist
  /\ result.ok

\* the fields of the Category Results, in result order
Costs == [i \in 1..Len(result.categories) |-> result.categories[i].cost]
Pcts == [i \in 1..Len(result.categories) |-> result.categories[i].pctOfTotal]

\* C3: in every returned result (overrides included) the costs of the Category
\* Results sum to totalCost and their pctOfTotal values sum to 1.
C3_CostConservation ==
  (Computed /\ result.ok) =>
    /\ NumEq(SumOf(Costs, Len(Costs)), result.totalCost)
    /\ NumEq(SumOf(Pcts, Len(Pcts)), One)

\* every selection is MEDIUM without override, one per category
AllMediumNoOverride ==
  /\ AllSelected
  /\ \A i \in 1..Len(selections) :
       selections[i].band = "MEDIUM" /\ selections[i].overridePsqft.k = "undef"

\* C6: when every category is selected at MEDIUM without override and a result is
\* returned, each category's pctOfTotal equals its implied Medium share and totalCost
\* equals the area times the sum of the Medium unit costs.
C6_MediumMatchesShares ==
  (Computed /\ result.ok /\ AllMediumNoOverride) =>
    /\ \A i \in CatIdx :
         NumEq(result.categories[i].pctOfTotal,
               computeImpliedMediumAllocationShares(benchmark)[CatId(i)])
    /\ NumEq(result.totalCost,
             Mul(areaSqft, SumOf([i \in CatIdx |-> BandPsqft(CatId(i), "MEDIUM")],
                                 CategoryCount)))

\* C7: pricing the same benchmark and selections again for another finite positive
\* area leaves every category's pctOfTotal unchanged (and the implied Medium shares
\* of the benchmark with them).
C7_AreaIndependence ==
  [][(/\ Computed /\ op' = op /\ result.ok
      /\ benchmark' = benchmark /\ selections' = selections
      /\ areaSqft' # areaSqft /\ IsFinite(areaSqft') /\ Gt(areaSqft', Zero))
     => /\ result'.ok
        /\ \A i \in CatIdx :
             result'.categories[i].pctOfTotal = result.categories[i].pctOfTotal
        /\ computeImpliedMediumAllocationShares(benchmark')
             = computeImpliedMediumAllocationShares(benchmark)]_vars

\* a returned result for an area other than the initial one, reached by pricing the
\* unchanged initial scenario again, with unequal percentages
C7_Witness ==
  /\ Computed /\ result.ok
  /\ edits = 0
  /\ areaSqft # defaultArea
  /\ result.areaSqft = areaSqft
  /\ \E i, j \in CatIdx : result.categories[i].pctOfTotal # result.categories[j].pctOfTotal

\* C8: an area that is zero, negative or non-finite makes computeScenarioResult fail
\* with the invalid-area error, whatever the benchmark and the selections are.
C8_InvalidArea ==
  (Computed /\ ~AreaIsValid) => (~result.ok /\ result.error = ErrArea)

\* the invalid-area error was raised for a non-finite area although a selection was
\* missing as well
C8_Witness ==
  /\ Computed
  /\ ~IsFinite(areaSqft)
  /\ ~AllSelected
  /\ result.error = ErrArea

\* the first category, in the fixed order, without a selection (when there is one)
FirstUnselected == CHOOSE i \in CatIdx :
  /\ ~HasSelection(CatId(i))
  /\ \A j \in 1..(i - 1) : HasSelection(CatId(j))

\* the categories before i whose selected band is missing from the benchmark
BandlessBefore(i) ==
  {j \in 1..(i - 1) : ~HasBand(CatId(j), SelectionFor(CatId(j)).band)}

\* C9 as stated: with a valid area, selections lacking an entry for some category make
\* the call fail with the missing-selection error.
C9_Original ==
  (Computed /\ AreaIsValid /\ ~AllSelected) =>
    (~result.ok /\ result.error = ErrSelection)

\* C9 (amended): with a valid area, selections lacking an entry for some category make
\* the call fail without a result: with the missing-selection error for the first such
\* category, unless a category before it has a selection whose band is missing from
\* the benchmark; then with the missing-benchmark-band error for the first of those.
C9_MissingSelection ==
  (Computed /\ AreaIsValid /\ ~AllSelected) =>
    /\ ~result.ok
    /\ IF BandlessBefore(FirstUnselected) = {}
         THEN result.error = ErrSelection /\ result.errorCategory = CatId(FirstUnselected)
       ELSE /\ result.error = ErrBand
            /\ \E j \in BandlessBefore(FirstUnselected) :
                 /\ result.errorCategory = CatId(j)
                 /\ \A k \in BandlessBefore(FirstUnselected) : j <= k

\* the missing-selection error was raised for the second category, the first one
\* having a selection whose band the benchmark holds
C9_Witness ==
  /\ Computed /\ AreaIsValid
  /\ HasSelection("FACILITATING")
  /\ ~HasSelection("SUBSTRUCTURE")
  /\ result.error = ErrSelection
  /\ result.errorCategory = "SUBSTRUCTURE"

\* C10: with a valid area and a selection for every category, a selected (category,
\* band) without entry in benchmark.bands makes the call fail with the
\* missing-benchmark-band error, also when that selection carries an override.
C10_MissingBand ==
  (Computed /\ AreaIsValid /\ AllSelected /\ ~AllSelectedBandsExist) =>
    (~result.ok /\ result.error = ErrBand)

\* the missing-benchmark-band error was raised for a selection carrying an override
C10_Witness ==
  /\ Computed /\ AllSelected
  /\ result.error = ErrBand
  /\ result.errorCategory \in CategoryIds
  /\ SelectionFor(result.errorCategory).overridePsqft.k # "undef"
  /\ ~HasBand(result.errorCategory, SelectionFor(result.errorCategory).band)

----------------------------------------------------------------------------
(* Properties of the implied Medium shares (checked under SpecRanges) *)

\* C4: computeImpliedMediumAllocationShares returns a share for each of the 7
\* categories, each in [0,1], and the shares sum to 1.
C4_SharesSumToOne ==
  op = "computeImpliedMediumAllocationShares" =>
    /\ DOMAIN shares = CategoryIds
    /\ \A c \in CategoryIds :
         IsFinite(shares[c]) /\ Le(Zero, shares[c]) /\ Le(shares[c], One)
    /\ NumEq(SumOf([i \in CatIdx |-> shares[CatId(i)]], CategoryCount), One)

\* shares were computed for a benchmark lacking a Medium band and holding a negative
\* unit cost, and they are not all equal
C4_Witness ==
  /\ op = "computeImpliedMediumAllocationShares"
  /\ \E c \in CategoryIds : ~HasBand(c, "MEDIUM")
  /\ \E i \in 1..Len(benchmark.bands) : Lt(benchmark.bands[i].psqft, Zero)
  /\ \E c, e \in CategoryIds : shares[c] # shares[e]

\* every band of the benchmark has a zero or negative unit cost (or there is no band)
AllNonPositive ==
  \A i \in 1..Len(benchmark.bands) : Le(benchmark.bands[i].psqft, Zero)

\* the representative unit costs, in category order, and their sum
Representatives == [i \in CatIdx |-> getMediumPsqftOrFallback(benchmark, CatId(i))]
RepresentativeSum == SumOf(Representatives, CategoryCount)

EqualShares == \A c \in CategoryIds : NumEq(shares[c], Fin(1, CategoryCount))

ProportionalShares ==
  \A i \in CatIdx : NumEq(shares[CatId(i)], Div(Representatives[i], RepresentativeSum))

\* C5 as stated: a benchmark with only zero or negative unit costs (or no bands) gets
\* the share 1/7 for every category; every other benchmark gets, for each category,
\* its representative unit cost divided by the sum of the representative unit costs.
C5_Original ==
  op = "computeImpliedMediumAllocationShares" =>
    IF AllNonPositive THEN EqualShares ELSE ProportionalShares

\* C5 (amended): when the sum of the representative unit costs is non-finite or <= 0
\* (as it is for a benchmark with only zero or negative unit costs or no bands) every
\* category gets the share 1/7; in every other case each category's share is its
\* representative unit cost divided by that sum.
C5_EqualWeightFallback ==
  op = "computeImpliedMediumAllocationShares" =>
    /\ AllNonPositive => EqualShares
    /\ IF ~IsFinite(RepresentativeSum) \/ Le(RepresentativeSum, Zero)
         THEN EqualShares ELSE ProportionalShares

\* equal shares were returned for a benchmark holding a positive unit cost
C5_Witness ==
  /\ op = "computeImpliedMediumAllocationShares"
  /\ ~AllNonPositive
  /\ \E i \in 1..Len(benchmark.bands) : Gt(benchmark.bands[i].psqft, Zero)
  /\ EqualShares

----------------------------------------------------------------------------
(* Further properties of the scenario computation engine (checked under Spec) *)

\* C11: when the category costs sum to zero or less, computeScenarioResult fails with
\* the non-positive-total error and returns no result (so does a benchmark whose unit
\* costs are all 0, priced for a valid area and selections); hence every returned
\* result has totalCost > 0.
C11_PositiveTotal ==
  Computed =>
    /\ (AreaIsValid /\ AllSelected /\ AllSelectedBandsExist /\ Le(ExpectedTotal, Zero))
         => (~result.ok /\ result.error = ErrTotal)
    /\ result.ok => Gt(result.totalCost, Zero)

\* C12: in every returned result, each category's rangeStatus is LOW exactly when
\* pctOfTotal < targetMinPct, HIGH exactly when pctOfTotal > targetMaxPct and OK
\* otherwise; a percentage equal to the minimum or to the maximum is OK.
C12_ClosedInterval ==
  (Computed /\ result.ok) =>
    \A i \in 1..Len(result.categories) :
      /\ result.categories[i].rangeStatus = "LOW"
           <=> Lt(result.categories[i].pctOfTotal, result.categories[i].targetMinPct)
      /\ result.categories[i].rangeStatus = "HIGH"
           <=> Gt(result.categories[i].pctOfTotal, result.categories[i].targetMaxPct)
      /\ result.categories[i].rangeStatus = "OK"
           <=> /\ ~Lt(result.categories[i].pctOfTotal, result.categories[i].targetMinPct)
               /\ ~Gt(result.categories[i].pctOfTotal, result.categories[i].targetMaxPct)

\* a returned result holds a category whose percentage equals a bound of its target
\* range and is OK, next to a LOW and a HIGH category
C12_Witness ==
  /\ Computed /\ result.ok
  /\ \E i \in 1..Len(result.categories) :
       /\ \/ NumEq(result.categories[i].pctOfTotal, result.categories[i].targetMinPct)
          \/ NumEq(result.categories[i].pctOfTotal, result.categories[i].targetMaxPct)
       /\ result.categories[i].rangeStatus = "OK"
  /\ \E i \in 1..Len(result.categories) : result.categories[i].rangeStatus = "LOW"
  /\ \E i \in 1..Len(result.categories) : result.categories[i].rangeStatus = "HIGH"

----------------------------------------------------------------------------
(* Properties of the range normalization (checked under SpecNormalize) *)

\* x clamped to [0,1]; a value that is not a finite number gives 0
Clamped01(x) ==
  IF ~IsFinite(x) THEN Zero
  ELSE IF Lt(x, Zero) THEN Zero
  ELSE IF Gt(x, One) THEN One
  ELSE x

\* C13: ensureMinMax clamps each of minPct and maxPct to [0,1] and, when the clamped
\* maximum is below the clamped minimum, returns the zero-width range at the clamped
\* minimum; for every pair it returns a pair with 0 <= minPct <= maxPct <= 1.
C13_Normalized ==
  op = "ensureMinMax" =>
    /\ fixed.minPct = Clamped01(pctArgs.minPct)
    /\ fixed.maxPct = IF Lt(Clamped01(pctArgs.maxPct), Clamped01(pctArgs.minPct))
                        THEN Clamped01(pctArgs.minPct)
                      ELSE Clamped01(pctArgs.maxPct)
    /\ ValidRange(fixed)

\* ensureMinMax was called on a pair above 1 and below 0 whose maximum is below its
\* minimum, and returned the zero-width range at 1
C13_Witness ==
  /\ op = "ensureMinMax" /\ calls = 1
  /\ Gt(pctArgs.minPct, One) /\ Lt(pctArgs.maxPct, Zero)
  /\ fixed = [minPct |-> One, maxPct |-> One]

\* C14: ensureMinMax applied to a pair it returned gives that pair again, and a pair
\* with 0 <= minPct <= maxPct <= 1 is returned unchanged.
C14_Idempotent ==
  op = "ensureMinMax" =>
    /\ calls = 2 => fixed = pctArgs
    /\ ValidRange(pctArgs) => fixed = pctArgs

\* ensureMinMax was called on the pair it had returned, a range of positive width
\* inside (0,1), and returned it again
C14_Witness ==
  /\ op = "ensureMinMax" /\ calls = 2
  /\ Lt(Zero, pctArgs.minPct) /\ Lt(pctArgs.minPct, pctArgs.maxPct)
  /\ Lt(pctArgs.maxPct, One)
  /\ fixed = pctArgs

----------------------------------------------------------------------------
(* Further properties of the range derivation engine (checked under SpecRanges) *)

\* x clamped to [lo, hi]; a value that is not a finite number gives lo
ClampedTo(x, lo, hi) ==
  IF ~IsFinite(x) THEN lo
  ELSE IF Lt(x, lo) THEN lo
  ELSE IF Gt(x, hi) THEN hi
  ELSE x

\* an option, or its default when the option is not given
OptionOr(x, default) == IF x = Undefined THEN default ELSE x

\* the larger of two finite numbers
Larger(x, y) == IF Lt(x, y) THEN y ELSE x

\* the normalized form of the range [mn, mx]
NormalizedRange(mn, mx) ==
  [minPct |-> Clamped01(mn),
   maxPct |-> IF Lt(Clamped01(mx), Clamped01(mn)) THEN Clamped01(mn) ELSE Clamped01(mx)]

\* the half-width of the range around center under the options o
HalfWidth(center, o) ==
  ClampedTo(Larger(ClampedTo(OptionOr(o.minHalfWidthAbs, Fin(1, 100)), Zero, Fin(1, 2)),
                   Mul(center,
                       ClampedTo(OptionOr(o.relativeTolerance, Fin(20, 100)), Zero, Fin(2, 1)))),
            Zero,
            ClampedTo(OptionOr(o.maxHalfWidthAbs, Fin(6, 100)), Zero, Fin(1, 2)))

\* the range of the category at index i derived from the benchmark under the options o
DerivedRange(i, o) ==
  LET center == Clamped01(computeImpliedMediumAllocationShares(benchmark)[CatId(i)])
      half == HalfWidth(center, o)
      normal == NormalizedRange(Sub(center, half), Add(center, half))
  IN [categoryId |-> CatId(i), minPct |-> normal.minPct, maxPct |-> normal.maxPct]

\* C15: deriveTargetRangesFromMedium returns, for each category in the fixed order,
\* the normalized range [center - half, center + half], center being the implied
\* Medium share clamped to [0,1] and half = clamp(max(minHalfWidthAbs, center *
\* relativeTolerance), 0, maxHalfWidthAbs), with relativeTolerance defaulting to 0.20
\* and clamped to [0,2], minHalfWidthAbs defaulting to 0.01 and maxHalfWidthAbs to
\* 0.06, both clamped to [0,0.5].
C15_DerivedRanges ==
  op = "deriveTargetRangesFromMedium" =>
    /\ OnePerCategory(ranges)
    /\ \A i \in CatIdx : ranges[i] = DerivedRange(i, opts)

\* ranges were derived with a relative tolerance above 2 and the default cap: one
\* category got a range cut at 0 and narrower than the cap, another one the capped
\* half-width on both sides of its share
C15_Witness ==
  /\ op = "deriveTargetRangesFromMedium"
  /\ Gt(opts.relativeTolerance, Fin(2, 1))
  /\ opts.maxHalfWidthAbs = Undefined
  /\ \E i \in CatIdx :
       /\ ranges[i].minPct = Zero
       /\ Gt(ranges[i].maxPct, Zero) /\ Lt(ranges[i].maxPct, Fin(6, 100))
  /\ \E i \in CatIdx : Sub(ranges[i].maxPct, ranges[i].minPct) = Fin(12, 100)

\* x, or 0 when x is negative
Floored(x) == IF Lt(x, Zero) THEN Zero ELSE x

\* the benchmark holds the band (c, b) with a finite unit cost
HasFiniteBand(c, b) == HasBand(c, b) /\ IsFinite(BandPsqft(c, b))

\* the representative unit cost of category c as C16 states it
StatedRepresentative(c) ==
  IF HasFiniteBand(c, "MEDIUM") THEN BandPsqft(c, "MEDIUM")
  ELSE IF HasBand(c, "LOW") /\ HasBand(c, "HIGH")
    THEN Div(Add(BandPsqft(c, "LOW"), BandPsqft(c, "HIGH")), Fin(2, 1))
  ELSE IF HasBand(c, "LOW") THEN BandPsqft(c, "LOW")
  ELSE IF HasBand(c, "HIGH") THEN BandPsqft(c, "HIGH")
  ELSE Zero

\* the same with every unit cost floored at 0 and LOW and HIGH used only when finite
FlooredRepresentative(c) ==
  IF HasFiniteBand(c, "MEDIUM") THEN Floored(BandPsqft(c, "MEDIUM"))
  ELSE IF HasFiniteBand(c, "LOW") /\ HasFiniteBand(c, "HIGH")
    THEN Div(Add(Floored(BandPsqft(c, "LOW")), Floored(BandPsqft(c, "HIGH"))), Fin(2, 1))
  ELSE IF HasFiniteBand(c, "LOW") THEN Floored(BandPsqft(c, "LOW"))
  ELSE IF HasFiniteBand(c, "HIGH") THEN Floored(BandPsqft(c, "HIGH"))
  ELSE Zero

\* the shares that representative unit costs reps (in category order) give: each over
\* their sum, 1/7 each when the sum is not a positive finite number
SharesFrom(reps) ==
  LET sum == SumOf(reps, CategoryCount)
  IN [c \in CategoryIds |->
        IF IsFinite(sum) /\ Gt(sum, Zero)
          THEN Div(reps[CHOOSE i \in CatIdx : CatId(i) = c], sum)
        ELSE Fin(1, CategoryCount)]

\* C16 as stated: the representative unit cost computeImpliedMediumAllocationShares
\* uses for a category is the MEDIUM unit cost when that band is present and finite;
\* otherwise the average of the LOW and HIGH unit costs when both are present;
\* otherwise whichever of LOW and HIGH is present; otherwise 0.
C16_Original ==
  op = "computeImpliedMediumAllocationShares" =>
    /\ \A c \in CategoryIds :
         getMediumPsqftOrFallback(benchmark, c) = StatedRepresentative(c)
    /\ shares = SharesFrom([i \in CatIdx |-> StatedRepresentative(CatId(i))])

\* C16 (amended): the representative unit cost is the MEDIUM unit cost floored at 0
\* when that band is present and finite; otherwise the average of the LOW and HIGH
\* unit costs, each floored at 0, when both are present and finite; otherwise
\* whichever of LOW and HIGH is present and finite, floored at 0; otherwise 0.
C16_Representative ==
  op = "computeImpliedMediumAllocationShares" =>
    /\ \A c \in CategoryIds :
         getMediumPsqftOrFallback(benchmark, c) = FlooredRepresentative(c)
    /\ shares = SharesFrom([i \in CatIdx |-> FlooredRepresentative(CatId(i))])

\* shares were computed for a benchmark in which a category lacks its MEDIUM band and
\* has a negative LOW unit cost next to a positive HIGH one; its share is positive
C16_Witness ==
  /\ op = "computeImpliedMediumAllocationShares"
  /\ \E c \in CategoryIds :
       /\ ~HasBand(c, "MEDIUM")
       /\ HasFiniteBand(c, "LOW") /\ Lt(BandPsqft(c, "LOW"), Zero)
       /\ HasFiniteBand(c, "HIGH") /\ Gt(BandPsqft(c, "HIGH"), Zero)
       /\ Gt(shares[c], Zero)

\* the well-formed entries benchmark.targetRanges holds for category c (as indices):
\* elements that are not null and carry c as category id
EntriesFor(c) ==
  {j \in 1..Len(RangeItems) : ~RangeItems[j].isNull /\ RangeItems[j].categoryId = c}

\* the entry that counts when there are several: the last one
LastEntryFor(c) == RangeItems[CHOOSE j \in EntriesFor(c) : \A k \in EntriesFor(c) : k <= j]

\* the normalized form of the entry that counts for the category at index i
KeptRange(i) ==
  LET normal == NormalizedRange(LastEntryFor(CatId(i)).minPct, LastEntryFor(CatId(i)).maxPct)
  IN [categoryId |-> CatId(i), minPct |-> normal.minPct, maxPct |-> normal.maxPct]

\* C17: ensureCompleteTargetRanges keeps, for every category with a well-formed entry
\* in benchmark.targetRanges, the normalized form of that entry (of the last one when
\* there are several) instead of a derived range, and gives every other category the
\* range deriveTargetRangesFromMedium produces for it with default options.
C17_KeepsExisting ==
  op = "ensureCompleteTargetRanges" =>
    /\ OnePerCategory(ranges)
    /\ \A i \in CatIdx :
         ranges[i] = IF EntriesFor(CatId(i)) # {} THEN KeptRange(i)
                     ELSE DerivedRange(i, NoOpts)

\* ranges were completed for a benchmark with two different entries for one category,
\* whose range is neither the first entry's nor the derived one, and no entry for
\* another category, whose range is the derived one
C17_Witness ==
  /\ op = "ensureCompleteTargetRanges"
  /\ \E i \in CatIdx :
       /\ \E j, k \in EntriesFor(CatId(i)) :
            /\ j < k
            /\ NormalizedRange(RangeItems[j].minPct, RangeItems[j].maxPct)
                 # NormalizedRange(RangeItems[k].minPct, RangeItems[k].maxPct)
       /\ ranges[i] = KeptRange(i)
       /\ ranges[i] # DerivedRange(i, NoOpts)
  /\ \E i \in CatIdx :
       /\ EntriesFor(CatId(i)) = {}
       /\ ranges[i] = DerivedRange(i, NoOpts)

\* the outcomes of the four functions of the engine
outcomes == <<result, ranges, shares>>

----------------------------------------------------------------------------
(* Properties of the assembled result (checked under Spec) *)

\* C18: in every returned result each category's psqftUsed is the selection's
\* overridePsqft when one is given (0 included) and the benchmark's unit cost of the
\* selected band otherwise, and its cost is areaSqft times psqftUsed.
C18_UnitCostUsed ==
  (Computed /\ result.ok) =>
    \A i \in CatIdx :
      /\ result.categories[i].psqftUsed = UnitCostFor(CatId(i))
      /\ result.categories[i].cost = Mul(areaSqft, result.categories[i].psqftUsed)

\* a returned result prices one category at its override 0, the band selected for it
\* having a positive unit cost, and another category at the unit cost of its band
C18_Witness ==
  /\ Computed /\ result.ok
  /\ \E i \in CatIdx :
       /\ SelectionFor(CatId(i)).overridePsqft = Zero
       /\ Gt(BandPsqft(CatId(i), SelectionFor(CatId(i)).band), Zero)
       /\ result.categories[i].psqftUsed = Zero
       /\ result.categories[i].cost = Zero
  /\ \E i \in CatIdx :
       /\ SelectionFor(CatId(i)).overridePsqft = Undefined
       /\ result.categories[i].psqftUsed = BandPsqft(CatId(i), SelectionFor(CatId(i)).band)
       /\ Gt(result.categories[i].cost, Zero)

\* C20: every returned result holds exactly one Category Result per category, in the
\* fixed category order whatever the order of the selections, each with the band of
\* its category's selection; the result's currency is the benchmark's.
C20_OrderedCategories ==
  (Computed /\ result.ok) =>
    /\ Len(result.categories) = CategoryCount
    /\ \A i \in CatIdx :
         /\ result.categories[i].categoryId = CatId(i)
         /\ result.categories[i].band = SelectionFor(CatId(i)).band
    /\ result.currency = benchmark.currency

\* a result was returned for selections listed out of category order: the first
\* category's selection, not listed first, is not MEDIUM, and the first Category
\* Result carries its band
C20_Witness ==
  /\ Computed /\ result.ok
  /\ Len(selections) = CategoryCount
  /\ selections[1].categoryId # CatId(1)
  /\ SelectionFor(CatId(1)).band # "MEDIUM"
  /\ result.categories[1].categoryId = CatId(1)
  /\ result.categories[1].band = SelectionFor(CatId(1)).band

----------------------------------------------------------------------------
(* Precedence of the hard errors (checked under Spec) *)

\* the categories, in the fixed order, lacking a selection or whose selected band is
\* missing from the benchmark
FailingCategories ==
  {i \in CatIdx :
     \/ ~HasSelection(CatId(i))
     \/ ~HasBand(CatId(i), SelectionFor(CatId(i)).band)}

\* C24: an invalid area is reported whatever else is wrong; otherwise the first
\* category, in the fixed order, that lacks a selection or whose selected band is
\* missing determines the error (the missing selection when it has none, the missing
\* band otherwise); the non-positive-total error is reported only when the area is
\* valid and every category passed both checks.
C24_ErrorPrecedence ==
  Computed =>
    /\ ~AreaIsValid => (~result.ok /\ result.error = ErrArea)
    /\ (AreaIsValid /\ FailingCategories # {}) =>
         \E i \in FailingCategories :
           /\ \A j \in FailingCategories : i <= j
           /\ ~result.ok
           /\ result.errorCategory = CatId(i)
           /\ result.error = IF HasSelection(CatId(i)) THEN ErrBand ELSE ErrSelection
    /\ result.error = ErrTotal => (AreaIsValid /\ FailingCategories = {})

\* the missing-band error was raised for the first category although the second one
\* has no selection, and the total would not have been positive either
C24_Witness ==
  /\ Computed /\ AreaIsValid
  /\ HasSelection("FACILITATING")
  /\ ~HasBand("FACILITATING", SelectionFor("FACILITATING").band)
  /\ ~HasSelection("SUBSTRUCTURE")
  /\ result.error = ErrBand
  /\ result.errorCategory = "FACILITATING"

----------------------------------------------------------------------------
(* Bounds on the percentages and costs of a result (checked under Spec) *)

\* every unit cost used (override or benchmark value) is >= 0
NonNegativeUnitCosts == \A c \in CategoryIds : Le(Zero, UnitCostFor(c))

\* every category's pctOfTotal lies in [0,1] and its cost in [0, totalCost]
BoundedCategories ==
  \A i \in 1..Len(result.categories) :
    /\ Le(Zero, result.categories[i].pctOfTotal)
    /\ Le(result.categories[i].pctOfTotal, One)
    /\ Le(Zero, result.categories[i].cost)
    /\ Le(result.categories[i].cost, result.totalCost)

----------------------------------------------------------------------------
(* Target ranges and pricing (checked under Spec) *)

\* target ranges a benchmark may carry instead of its own: none, absent, not an
\* array, the demo ranges, and an inverted out-of-bounds entry followed by null
AlternativeRanges ==
  {RangesArray(<< >>), RangesMissing, RangesNotArray, RangesArray(demoTargetRanges),
   RangesArray(<< RangeEntry("FACILITATING", Fin(3, 2), Fin(-1, 2)), NullEntry >>)}

\* the outcome of a call without what the target ranges decide: the error, or the
\* totals and each category's band, unit cost used, cost and pctOfTotal
PricingOf(r) ==
  [ok |-> r.ok, error |-> r.error, errorCategory |-> r.errorCategory,
   errorBand |-> r.errorBand, areaSqft |-> r.areaSqft, currency |-> r.currency,
   totalCost |-> r.totalCost, totalPsqft |-> r.totalPsqft,
   categories |-> [i \in 1..Len(r.categories) |->
                     [categoryId |-> r.categories[i].categoryId,
                      band |-> r.categories[i].band,
                      psqftUsed |-> r.categories[i].psqftUsed,
                      cost |-> r.categories[i].cost,
                      pctOfTotal |-> r.categories[i].pctOfTotal]]]

\* the outcome of the same call on the benchmark carrying the target ranges t
WithRanges(t) ==
  computeScenarioResult(areaSqft, [benchmark EXCEPT !.targetRanges = t], selections)

\* C22: for two benchmarks that differ only in targetRanges, computeScenarioResult on
\* the same area and selections fails with the same error for both or returns for
\* both the same totalCost, totalPsqft and per-category band, unit cost used, cost and
\* pctOfTotal.
C22_RangesNotLoadBearing ==
  Computed => \A t \in AlternativeRanges : PricingOf(WithRanges(t)) = PricingOf(result)

\* a result was returned whose first category is within its range, and the same call
\* on the benchmark with other target ranges classifies that category differently
C22_Witness ==
  /\ Computed /\ result.ok
  /\ result.categories[1].rangeStatus = "OK"
  /\ \E t \in AlternativeRanges :
       /\ t # benchmark.targetRanges
       /\ WithRanges(t).categories[1].rangeStatus # "OK"
       /\ WithRanges(t).categories[1].targetMinPct # result.categories[1].targetMinPct

----------------------------------------------------------------------------
(* Duplicate and foreign entries (checked under SpecDuplicates) *)

\* the elements of s at the indices in keep, in order, up to index i
RECURSIVE Pick(_, _, _)
Pick(s, keep, i) ==
  IF i = 0 THEN << >>
  ELSE IF i \in keep THEN Append(Pick(s, keep, i - 1), s[i])
  ELSE Pick(s, keep, i - 1)

\* the selections reduced to the last entry of each fixed category
LastSelections ==
  Pick(selections,
       {i \in 1..Len(selections) :
          /\ selections[i].categoryId \in CategoryIds
          /\ \A j \in (i + 1)..Len(selections) :
               selections[j].categoryId # selections[i].categoryId},
       Len(selections))

\* the bands reduced to the first entry of each (category, band)
FirstBands ==
  Pick(benchmark.bands,
       {i \in 1..Len(benchmark.bands) :
          \A j \in 1..(i - 1) :
            ~(/\ benchmark.bands[j].categoryId = benchmark.bands[i].categoryId
              /\ benchmark.bands[j].band = benchmark.bands[i].band)},
       Len(benchmark.bands))

\* the target ranges reduced to the last entry of each fixed category
LastRanges ==
  Pick(RangeItems,
       {i \in 1..Len(RangeItems) :
          /\ RangeItems[i].categoryId \in CategoryIds
          /\ \A j \in (i + 1)..Len(RangeItems) :
               RangeItems[j].categoryId # RangeItems[i].categoryId},
       Len(RangeItems))

\* C28: the outcome of computeScenarioResult is the one it has on the inputs reduced
\* to the last selection of each category, the first band entry of each (category,
\* band) and the last target range of each category, with the selections and target
\* ranges for ids outside the 7 fixed categories removed.
C28_Duplicates ==
  Computed =>
    result = computeScenarioResult(
               areaSqft,
               [benchmark EXCEPT !.bands = FirstBands,
                                 !.targetRanges = RangesArray(LastRanges)],
               LastSelections)

\* a result was returned for selections holding two entries for the first category
\* with different bands, the benchmark holding two entries with different unit costs
\* for the band selected last: the category is priced at the first of them
C28_Witness ==
  /\ Computed /\ result.ok
  /\ \E i, j \in 1..Len(selections) :
       /\ i < j
       /\ selections[i].categoryId = CatId(1) /\ selections[j].categoryId = CatId(1)
       /\ selections[i].band # selections[j].band
       /\ result.categories[1].band = selections[j].band
       /\ \E k, l \in 1..Len(benchmark.bands) :
            /\ k < l
            /\ benchmark.bands[k].categoryId = CatId(1)
            /\ benchmark.bands[l].categoryId = CatId(1)
            /\ benchmark.bands[k].band = selections[j].band
            /\ benchmark.bands[l].band = selections[j].band
            /\ benchmark.bands[k].psqft # benchmark.bands[l].psqft
            /\ result.categories[1].psqftUsed = benchmark.bands[k].psqft

----------------------------------------------------------------------------
(* Width of the derived ranges (checked under SpecRanges) *)

\* the range r has a width in (0, 12/100] when the options are the default ones and of
\* at most twice cap in any case, and it contains center
WidthWithin(r, width, center, cap) ==
  /\ opts = NoOpts => (Gt(width, Zero) /\ Le(width, Fin(12, 100)))
  /\ Le(width, Mul(Fin(2, 1), cap))
  /\ Le(r.minPct, center) /\ Le(center, r.maxPct)

\* C23: with default options every range returned by deriveTargetRangesFromMedium has
\* maxPct > minPct and a width of at most 0.12; for any options the width is at most
\* twice the clamped maxHalfWidthAbs and the range contains the category's clamped
\* implied share.
C23_RangeWidth ==
  op = "deriveTargetRangesFromMedium" =>
    \A i \in CatIdx :
      WidthWithin(ranges[i], Sub(ranges[i].maxPct, ranges[i].minPct),
                  Clamped01(computeImpliedMediumAllocationShares(benchmark)[CatId(i)]),
                  ClampedTo(OptionOr(opts.maxHalfWidthAbs, Fin(6, 100)), Zero, Fin(1, 2)))

\* ranges derived with default options: one starts at 0 with the width of the floor,
\* the range of a category with share 0, and another has the full width 0.12
C23_Witness ==
  /\ op = "deriveTargetRangesFromMedium" /\ opts = NoOpts
  /\ \E i, j \in CatIdx :
       /\ ranges[i].minPct = Zero /\ ranges[i].maxPct = Fin(1, 100)
       /\ Sub(ranges[j].maxPct, ranges[j].minPct) = Fin(12, 100)

----------------------------------------------------------------------------
(* Calibration from Medium (checked under SpecCalibrate) *)

\* the benchmark's target ranges are the ones derived from it by the last calibration
Calibrated ==
  /\ ranges # NoRanges
  /\ benchmark.targetRanges =
       RangesArray(AsEntries(deriveTargetRangesFromMedium(benchmark, opts)))

\* C21: after the benchmark's target ranges have been replaced by the ranges derived
\* from it, under any calibration options, every result returned for selections that
\* are all MEDIUM without override reports the range status OK for every category.
C21_CalibratedInRange ==
  (Computed /\ result.ok /\ Calibrated /\ AllMediumNoOverride) =>
    \A i \in CatIdx : result.categories[i].rangeStatus = "OK"

----------------------------------------------------------------------------
(* Location factor (checked under SpecLocation) *)

\* the factor the unit costs of category c are to be multiplied by
StatedFactor(c) ==
  IF Gt(factor, Fin(110, 100)) /\ c \in {"INTERNAL_FINISHES", "FF_E"}
    THEN Add(One, Mul(Sub(factor, One), Fin(1, 2)))
  ELSE factor

\* C27: applyLocationFactorWithDamping with a finite positive factor G other than 1
\* returns a benchmark in which every band's unit cost is the original multiplied by G,
\* or by 1 + (G - 1) * 0.5 for the INTERNAL_FINISHES and FF_E bands when G > 1.10; a
\* factor that is non-finite, non-positive or 1 returns the benchmark unchanged.
C27_LocationFactor ==
  op = "applyLocationFactorWithDamping" =>
    /\ Len(scaled.bands) = Len(benchmark.bands)
    /\ \A i \in 1..Len(scaled.bands) :
         scaled.bands[i].psqft =
           IF ~IsFinite(factor) \/ Le(factor, Zero) \/ factor = One
             THEN benchmark.bands[i].psqft
           ELSE Mul(benchmark.bands[i].psqft, StatedFactor(benchmark.bands[i].categoryId))

\* the ids of the regions of the library are pairwise distinct
DistinctIds(lib) ==
  \A i, j \in 1..Len(lib.regions) : i # j => lib.regions[i].id # lib.regions[j].id

\* C30: when addRegion is called, under any name, on a library whose region ids are
\* pairwise distinct, the ids of the library it returns are pairwise distinct, the new
\* region is the first of the list, and the regions that were there follow it with
\* their ids, their order and their benchmarks.
C30_AddRegion ==
  [][(libCall'.fn = "addRegion" /\ DistinctIds(library))
       => /\ DistinctIds(library')
          /\ Len(library'.regions) = Len(library.regions) + 1
          /\ library'.regions[1].name = libCall'.name
          /\ library'.regions[1].id \notin RegionIds(library)
          /\ Tail(library'.regions) = library.regions]_vars

\* three regions were added to the demo library under names whose slugs are empty or
\* taken: the ids given are region, region-2, and us-2-2 after us-2 was given
C30_Witness ==
  /\ libCall.fn = "addRegion"
  /\ libOps = 3
  /\ DistinctIds(library)
  /\ \/ { << "r", "e", "g", "i", "o", "n" >>, << "r", "e", "g", "i", "o", "n", "-", "2" >> }
          \subseteq RegionIds(library)
     \/ { << "u", "s", "-", "2" >>, << "u", "s", "-", "2", "-", "2" >> }
          \subseteq RegionIds(library)

----------------------------------------------------------------------------
(* The benchmarks of the library (checked under SpecLibrary) *)

\* the benchmarks held in the library
LibraryBenchmarks ==
  {library.regions[i].byTier[t] : i \in 1..Len(library.regions), t \in TierIds}

\* the entries of the benchmark b for category c and band h
BandEntries(b, c, h) ==
  {j \in 1..Len(b.bands) : b.bands[j].categoryId = c /\ b.bands[j].band = h}

\* b has an entry for each of the 7 x 3 keys, and the unit cost of each is finite
CompleteBands(b) ==
  \A c \in CategoryIds, h \in HeatBand :
    /\ BandEntries(b, c, h) # {}
    /\ \A j \in BandEntries(b, c, h) : IsFinite(b.bands[j].psqft)

\* the last call updated a benchmark of the library with a benchmark object
Updated == libCall.fn = "updateBenchmarkForRegionTier" /\ libCall.incoming.isObject

\* the benchmarks the last call addressed: those of its tier in the regions of its id
Addressed ==
  {library.regions[i].byTier[libCall.tier] :
     i \in {j \in 1..Len(library.regions) : library.regions[j].id = libCall.regionId}}

\* the incoming benchmark of the last call has no usable entry for c and h
AbsentFromIncoming(c, h) ==
  \/ ~libCall.incoming.bands.isArray
  \/ \A j \in 1..Len(libCall.incoming.bands.items) :
       ~(/\ CleanBand(libCall.incoming.bands.items[j])
         /\ libCall.incoming.bands.items[j].categoryId = c
         /\ libCall.incoming.bands.items[j].band = h)

\* C25: every benchmark held in the library, as loaded from storage and after any
\* sequence of the five operations on the library, has an entry with a finite unit
\* cost for each category and band; after an update the entries the incoming
\* benchmark lacked have unit cost 0; and pricing a scenario on a benchmark of the
\* library never raises the missing-band error.
C25_CompleteBands ==
  /\ \A b \in LibraryBenchmarks : CompleteBands(b)
  /\ Updated =>
       \A b \in Addressed, c \in CategoryIds, h \in HeatBand :
         AbsentFromIncoming(c, h) =>
           \A j \in BandEntries(b, c, h) : b.bands[j].psqft = Zero
  /\ op = "computeScenarioResult" => result.error # ErrBand

\* a tier was updated with the damaged benchmark, of whose nine entries three are
\* usable for the 21 keys, and the scenario priced on the result at the band LOW,
\* where it holds the one positive unit cost
C25_Witness ==
  /\ Updated
  /\ libCall.incoming = damagedBenchmark
  /\ op = "computeScenarioResult"
  /\ result.ok
  /\ \E b \in Addressed :
       /\ benchmark = EngineBenchmark(b)
       /\ \E j \in BandEntries(b, "FACILITATING", "LOW") : b.bands[j].psqft = Fin(20, 1)
       /\ \E j \in BandEntries(b, "FACILITATING", "MEDIUM") : b.bands[j].psqft = Zero
       /\ \E j \in BandEntries(b, "SUBSTRUCTURE", "MEDIUM") : b.bands[j].psqft = Fin(12, 1)

\* the target ranges of b are an array holding exactly one range per category, each
\* with 0 <= minPct <= maxPct <= 1
OneRangePerCategory(b) ==
  /\ b.targetRanges.shape = "array"
  /\ Len(b.targetRanges.items) = CategoryCount
  /\ \A c \in CategoryIds :
       \E i \in 1..Len(b.targetRanges.items) :
         /\ b.targetRanges.items[i].categoryId = c
         /\ Le(Zero, b.targetRanges.items[i].minPct)
         /\ Le(b.targetRanges.items[i].minPct, b.targetRanges.items[i].maxPct)
         /\ Le(b.targetRanges.items[i].maxPct, One)

\* C26: the benchmarks that normalizeBenchmarkSet produced (those of the library as
\* it is loaded, and the one an update stores) hold exactly one target range per
\* category, each with 0 <= minPct <= maxPct <= 1, whatever target ranges the
\* incoming benchmark carried.
C26_NormalizedRanges ==
  /\ libOps = 0 => \A b \in LibraryBenchmarks : OneRangePerCategory(b)
  /\ libCall.fn = "updateBenchmarkForRegionTier" =>
       \A b \in Addressed : OneRangePerCategory(b)

====
